---- MODULE Spec2Model ----
(***************************************************************************)
(* claude-runner: the run lifecycle (runner.sh), the kill path             *)
(* (server/lib/runner.ts) and the run state store (server/lib/state.ts).   *)
(*                                                                         *)
(* Every runner.sh invocation is a process p of Procs.  The lock of a job  *)
(* is the directory locks/<job>.lock plus the file locks/<job>.pid; the    *)
(* state store is the JSON array in state.json.                            *)
(*                                                                         *)
(* Further parts, each with a specification of its own: the store's cap    *)
(* (CapSpec), the store functions of state.ts (StoreSpec), the files       *)
(* behind write-temp-then-rename (FsSpec), cron_to_calendar_interval       *)
(* (CronSpec) and the schedule sync of setup.sh (SyncSpec).                *)
(***************************************************************************)
EXTENDS Integers, Sequences, FiniteSets, TLC

\* ---------------------------------------------------------------- bounds
\* runner.sh invocations (process ids) in one behaviour
NProcs == 3
\* largest configured `retries` of a job definition
MaxRetries == 1
\* wall-clock seconds that can pass (RUN_ID has second resolution)
MaxClock == 1

\* runs started one after the other when the store's cap is examined
MaxAppends == 102

\* records in state.json when the server's store functions are examined
MaxStoreLen == 3

\* processes that write state.json at the same time (runner.sh of distinct
\* jobs, the server)
NWriters == 2

\* runs of setup.sh that can be in progress at once
NSyncs == 1
NConcurrent == 2
MaxSseRuns == 2
MaxLog == 2

\* ------------------------------------------------------- program constants
\* runs.slice(-100)
KeepLast == 100
\* runs.reverse().slice(0, 50)
StatusLimit == 50
\* exitCode written by killJob
KilledCode == 137
\* runner.sh exits 2 when the lock is held
RejectCode == 2
\* exit status of a shell ended by SIGTERM, and of one ended by SIGKILL
TermCode == 128 + 15
\* exit status of timeout(1) when the time is up
TimedOut == 124
SigKillStatus == 128 + 9

Procs == 1..NProcs
\* the pid file does not exist
NoPid == 0
\* an optional numeric field of a RunRecord (exitCode?, attempts?) is absent
NoVal == -1

JobNames == {"a", "b"}
\* who started runner.sh: the API trigger endpoint, the CLI, the schedule
Sources == {"api", "cli", "schedule"}
ManualSources == {"api", "cli"}
\* exit codes the job command can end an attempt with
AttemptCodes == {0, 1}

\* pcs at which the runner has passed mkdir in acquire_lock and has not ended
LockedPcs == {"pidwrite", "append", "loop", "final", "exit", "term"}
\* the subset at which acquire_lock has returned and the attempt-sequence
\* (running entry, retry loop, final entry) is in progress
ActivePcs == {"append", "loop", "final"}

VARIABLES
  jobDefs,    \* job name -> [enabled, retries] (the job's YAML)
  lockDir,    \* job name -> BOOLEAN: locks/<job>.lock exists
  pidFile,    \* job name -> pid written in locks/<job>.pid, NoPid if absent
  stateFile,  \* state.json: sequence of RunRecords
  now,        \* wall clock, in seconds
  pc,         \* process -> position in runner.sh
  job,        \* process -> JOB_NAME
  ts,         \* process -> TIMESTAMP of RUN_ID
  ATTEMPT,    \* process -> ATTEMPT
  EXIT_CODE,  \* process -> EXIT_CODE
  trapSet,    \* process -> the EXIT trap is installed
  hist,       \* process -> exit codes of the attempts it executed
  ev          \* what the step that led here showed to the outside: the
              \* trigger made, the answer of killJob, the exit status of a
              \* runner process; NoEv for a step that shows nothing

\* the state of the parts of the program other than the run lifecycle
VARIABLES
  tmpIno,     \* inode the path state.json.tmp names, NoIno if it does not exist
  stIno,      \* inode the path state.json names
  content,    \* inode -> what the file holds
  wpc,        \* store writer -> position in its write-temp-then-rename
  wfd,        \* store writer -> inode its open file descriptor refers to
  seen,       \* what the last getRecentRuns read from state.json
  mutators,   \* store writer -> its read-modify-replace: position, call, array read
  cron,       \* the argument of cron_to_calendar_interval
  calendar,   \* what cron_to_calendar_interval printed; NoOutput before a call
  jobYaml,    \* setup.sh: job name -> [schedule, enabled] of its YAML file
  plists,     \* setup.sh: label -> calendar of the plist file in AGENTS_DIR
  loaded,     \* setup.sh: label -> calendar of the service launchd has loaded
  syncer,     \* setup.sh run -> its position and shell variables
  lastSync    \* the job definitions the last completed setup.sh run saw

\* the state the server's job functions work on
VARIABLES
  jobsDir,      \* jobs/: job name -> text of <name>.yaml
  jobsLocalDir, \* jobs.local/: job name -> text of <name>.yaml
  lockFiles,    \* the job names for which locks/<name>.lock exists
  synced        \* the job files the last syncSchedule() ran setup.sh over

\* one connection to GET /api/events, and the log files it tails
VARIABLES
  ssePc,             \* position of the connection's loop
  lastRunsHash,      \* lastRunsHash
  logOffsets,        \* logOffsets: runId -> offset, no key before a first read
  previouslyRunning, \* previouslyRunning
  currentlyRunning,  \* currentlyRunning
  tickRuns,          \* runs: the array getRecentRuns() returned to this tick
  sseTodo,           \* the runIds the current for loop has still to visit
  sseCur,            \* getLogContentFromOffset in progress: its run, its stats.size
  logFile,           \* runId -> number of bytes of logs/<runId>.log
  sent,              \* runId -> the bytes of the log events written so far
  logs,              \* the subscriber's logs: runId -> the bytes it has put together
  closing            \* runs whose runner has stored its final entry and not yet exited

\* the timeout of an attempt
VARIABLES
  JOB_TIMEOUT,  \* the job's YAML has a timeout
  commands,     \* which of gtimeout and timeout command -v finds
  TIMEOUT_CMD   \* process -> TIMEOUT_CMD, "unset" before the first iteration

fsVars == <<tmpIno, stIno, content, wpc, wfd, seen, mutators>>
cronVars == <<cron, calendar>>
syncVars == <<jobYaml, plists, loaded, syncer, lastSync>>
jobsVars == <<jobsDir, jobsLocalDir, lockFiles, synced>>
sseVars == <<ssePc, lastRunsHash, logOffsets, previouslyRunning,
            currentlyRunning, tickRuns, sseTodo, sseCur, logFile, sent, logs,
            closing>>
srvVars == <<jobsVars, sseVars>>
timeoutVars == <<JOB_TIMEOUT, commands, TIMEOUT_CMD>>
runVars == <<jobDefs, lockDir, pidFile, stateFile, now, pc, job, ts,
             ATTEMPT, EXIT_CODE, trapSet, hist, ev>>
\* everything the run lifecycle does not touch
extVars == <<fsVars, cronVars, syncVars, srvVars, timeoutVars>>

vars == <<jobDefs, lockDir, pidFile, stateFile, now, pc, job, ts,
          ATTEMPT, EXIT_CODE, trapSet, hist, ev,
          tmpIno, stIno, content, wpc, wfd, seen, mutators, cron, calendar,
          jobYaml, plists, loaded, syncer, lastSync,
          jobsDir, jobsLocalDir, lockFiles, synced,
          ssePc, lastRunsHash, logOffsets, previouslyRunning,
          currentlyRunning, tickRuns, sseTodo, sseCur, logFile, sent, logs, closing,
          JOB_TIMEOUT, commands, TIMEOUT_CMD>>

procVars == <<pc, job, ts, ATTEMPT, EXIT_CODE, trapSet, hist>>

NoEv == [op |-> "none"]
\* a start of runner.sh; the trigger route answers status "started" after
\* spawnJob, the CLI and launchd answer nothing
TriggerEv(j, s) ==
  [op |-> "trigger", job |-> j, src |-> s,
   answer |-> IF s = "api" THEN "started" ELSE "none"]
KillEv(j, k) == [op |-> "kill", job |-> j, killed |-> k]
ExitEv(p, c) == [op |-> "exit", code |-> c]

\* ------------------------------------------------------------- RunRecord
RunId(j, t) == <<j, t>>

\* the entry pushed before the first attempt
RunningEntry(j, t) ==
  [runId |-> RunId(j, t), jobName |-> j, status |-> "running",
   exitCode |-> NoVal, attempts |-> NoVal]

\* the entry written after the retry loop (no status key)
FinalEntry(j, t, code, n) ==
  [runId |-> RunId(j, t), jobName |-> j, status |-> "none",
   exitCode |-> code, attempts |-> n]

\* (variant: slice(0, 100), which keeps the oldest records)
TruncateKeepOldest(runs) ==
  IF Len(runs) > KeepLast THEN SubSeq(runs, 1, KeepLast) ELSE runs

\* if (runs.length > 100) runs = runs.slice(-100)
Truncate(runs) ==
  IF Len(runs) > KeepLast
    THEN SubSeq(runs, Len(runs) - KeepLast + 1, Len(runs))
    ELSE runs

\* runs.findIndex(r => r.runId === id), 1-based, 0 when absent
FindIndex(runs, id) ==
  IF \E i \in 1..Len(runs) : runs[i].runId = id
    THEN CHOOSE i \in 1..Len(runs) :
           /\ runs[i].runId = id
           /\ \A k \in 1..(i - 1) : runs[k].runId # id
    ELSE 0

\* runs.push(running entry), truncated
AppendRunning(runs, j, t) == Truncate(Append(runs, RunningEntry(j, t)))

\* if (idx >= 0) runs[idx] = entry; else runs.push(entry), truncated
ReplaceFinal(runs, entry) ==
  LET idx == FindIndex(runs, entry.runId)
  IN  Truncate(IF idx > 0 THEN [runs EXCEPT ![idx] = entry]
                          ELSE Append(runs, entry))

\* updateRun(runId, {status: "killed", exitCode: 137}) on the array
MarkKilled(runs, id) ==
  LET idx == FindIndex(runs, id)
  IN  IF idx = 0 THEN runs
      ELSE [runs EXCEPT ![idx] = [@ EXCEPT !.status = "killed",
                                          !.exitCode = KilledCode]]

\* runs.filter(r => r.jobName === jobName && r.status === "running")
StaleIdx(runs, j) ==
  {i \in 1..Len(runs) : runs[i].jobName = j /\ runs[i].status = "running"}

\* for (const run of staleRuns) updateRun(run.runId, ...), in array order
RECURSIVE MarkAll(_, _, _)
MarkAll(runs, stale, i) ==
  IF i > Len(stale) THEN runs
  ELSE MarkAll(MarkKilled(runs, stale[i].runId), stale, i + 1)

RECURSIVE SelectSeqIdx(_, _, _)
SelectSeqIdx(runs, idx, i) ==
  IF i > Len(runs) THEN << >>
  ELSE (IF i \in idx THEN <<runs[i]>> ELSE << >>) \o SelectSeqIdx(runs, idx, i + 1)

StaleRuns(runs, j) == SelectSeqIdx(runs, StaleIdx(runs, j), 1)

\* run.status || (run.exitCode === 0 ? "success" : "failed")
DerivedStatus(r) ==
  IF r.status # "none" THEN r.status
  ELSE IF r.exitCode = 0 THEN "success" ELSE "failed"

\* ------------------------------------------- the parts outside a run
\* state.json and state.json.tmp as directory entries that name inodes
NoIno == 0
FreeIno == [kind |-> "free"]
\* a file just created or truncated by open(O_TRUNC), nothing written yet
EmptyFile == [kind |-> "empty"]
\* a file holding bytes of two different writes
TornFile == [kind |-> "torn"]
\* a file holding the complete JSON array written by writer w (0: the array
\* that was there at the start)
Snapshot(w) == [kind |-> "snapshot", by |-> w]

Writers == 1..NWriters
\* state.json, state.json.tmp, and per writer one unlinked file it still has
\* open
Inodes == 1..(NWriters + 2)

IdleMutator == [pc |-> "idle"]

\* no writer is writing, state.json holds a complete array
FsRest ==
  /\ tmpIno = NoIno
  /\ stIno = 1
  /\ content = [i \in Inodes |-> IF i = 1 THEN Snapshot(0) ELSE FreeIno]
  /\ wpc = [w \in Writers |-> "idle"]
  /\ wfd = [w \in Writers |-> NoIno]
  /\ seen = Snapshot(0)
  /\ mutators = [w \in Writers |-> IdleMutator]

\* cron_to_calendar_interval has not been called
NoOutput == [called |-> FALSE]
CronRest ==
  /\ cron = << >>
  /\ calendar = NoOutput

\* there is no job file, setup.sh has never run and is not running
NoSync == [ran |-> FALSE]
NoWatch == [on |-> FALSE]
Syncers == 1..NConcurrent
IdleSyncer ==
  [pc |-> "idle", todo |-> {}, installed |-> {}, cur |-> "", sched |-> << >>,
   clean |-> TRUE, watch |-> NoWatch]
SyncRest ==
  /\ jobYaml = << >>
  /\ plists = << >>
  /\ loaded = << >>
  /\ syncer = [q \in Syncers |-> IdleSyncer]
  /\ lastSync = NoSync

\* no job file, no lock, no sync yet
NoFiles == [x \in {} |-> ""]
JobsRest ==
  /\ jobsDir = NoFiles
  /\ jobsLocalDir = NoFiles
  /\ lockFiles = {}
  /\ synced = NoFiles

\* let lastRunsHash = ""
NoHash == [set |-> FALSE, h |-> << >>]
\* no getLogContentFromOffset is in progress
NoCur == [on |-> FALSE]
\* no connection activity yet, no log file
SseLoopRest ==
  /\ ssePc = "sleep"
  /\ lastRunsHash = NoHash
  /\ logOffsets = << >>
  /\ previouslyRunning = {}
  /\ currentlyRunning = {}
  /\ tickRuns = << >>
  /\ sseTodo = {}
  /\ sseCur = NoCur
  /\ sent = << >>
  /\ logs = << >>
  /\ closing = {}
SseRest == SseLoopRest /\ logFile = << >>

SrvRest == JobsRest /\ SseRest

\* no timeout, no timeout command
TimeoutRest ==
  /\ JOB_TIMEOUT = FALSE
  /\ commands = {}
  /\ TIMEOUT_CMD = [p \in Procs |-> "unset"]

ExtRest == FsRest /\ CronRest /\ SyncRest /\ SrvRest /\ TimeoutRest

\* ------------------------------------------------------------------ Init
Init ==
  \* job a is enabled with any retries; job b is paused (enabled: false)
  /\ jobDefs \in {d \in [JobNames -> [enabled : BOOLEAN, retries : 0..MaxRetries]] :
                    /\ d["a"].enabled
                    /\ ~d["b"].enabled /\ d["b"].retries = 0}
  /\ lockDir = [j \in JobNames |-> FALSE]
  /\ pidFile = [j \in JobNames |-> NoPid]
  /\ stateFile = << >>
  /\ now = 0
  /\ pc = [p \in Procs |-> "idle"]
  /\ job = [p \in Procs |-> "a"]
  /\ ts = [p \in Procs |-> 0]
  /\ ATTEMPT = [p \in Procs |-> 0]
  /\ EXIT_CODE = [p \in Procs |-> 1]
  /\ trapSet = [p \in Procs |-> FALSE]
  /\ hist = [p \in Procs |-> << >>]
  /\ ev = NoEv
  /\ ExtRest

\* ---------------------------------------------------------------- helpers
\* (variant: no EXIT trap cleans the lock directory)
LockDirKept(p) == lockDir

\* trap 'rm -rf "$LOCKFILE" "$PIDFILE"' EXIT: the files left when p exits
LockDirAfterExit(p) ==
  IF trapSet[p] THEN [lockDir EXCEPT ![job[p]] = FALSE] ELSE lockDir

PidFileAfterExit(p) ==
  IF trapSet[p] THEN [pidFile EXCEPT ![job[p]] = NoPid] ELSE pidFile

\* (variant: mkdir -p, which succeeds on an existing directory)
MkdirDashP(j) == TRUE

\* mkdir "$LOCKFILE" succeeds iff the directory does not exist
MkdirOk(j) == ~lockDir[j]

\* (variant: one iteration too many)
LoopCondOffByOne(attempt, maxRetries) == attempt <= maxRetries + 1

\* while [ "$ATTEMPT" -le "$MAX_RETRIES" ]
LoopCond(attempt, maxRetries) == attempt <= maxRetries

\* (variant: the loop does not stop on success)
NeverBreak(c) == FALSE

\* if [ "$EXIT_CODE" -eq 0 ]; then ... break
BreakOnZero(c) == c = 0

\* the process ends with exit status c; the shell variables of a process
\* that is gone are forgotten
Gone(p, c) ==
  /\ pc' = [pc EXCEPT ![p] = "done"]
  /\ ev' = ExitEv(p, c)
  /\ job' = [job EXCEPT ![p] = "a"]
  /\ ts' = [ts EXCEPT ![p] = 0]
  /\ ATTEMPT' = [ATTEMPT EXCEPT ![p] = 0]
  /\ EXIT_CODE' = [EXIT_CODE EXCEPT ![p] = 1]
  /\ hist' = [hist EXCEPT ![p] = << >>]
  /\ trapSet' = [trapSet EXCEPT ![p] = FALSE]

\* exit c: the EXIT trap, if installed, removes the lock by path
Exited(p, c) ==
  /\ Gone(p, c)
  /\ lockDir' = LockDirAfterExit(p)
  /\ pidFile' = PidFileAfterExit(p)

NextIdle == CHOOSE p \in Procs : pc[p] = "idle" /\ \A q \in 1..(p - 1) : pc[q] # "idle"

\* existsSync(jobs.local/<name>.yaml) || existsSync(jobs/<name>.yaml)
jobExists(j) == j \in DOMAIN jobDefs

\* ---------------------------------------------------------------- runner
\* A trigger (POST /trigger/:jobName -> spawnJob, the command line, or the
\* scheduler) starts runner.sh <job>, which runs lines 64-122: job lookup,
\* RUN_ID from the clock, job values, the enabled check.  The clock may have
\* advanced by a second since it was last read.
\* (variant: every job file loads)
LoadsAnything(j) == TRUE
\* load_job: js-yaml parses the job file; when it throws, bun fails and
\* set -e ends the script at the first PROMPT="$(load_job ...)"
Loads(j) == "broken" \notin DOMAIN jobDefs[j]

Trigger(j, s, t) ==
  /\ \E p \in Procs : pc[p] = "idle"
  /\ s = "api" => jobExists(j)
  /\ t \in {now, now + 1}
  /\ t <= MaxClock
  /\ now' = t
  /\ ev' = TriggerEv(j, s)
  /\ LET p == NextIdle
     IN  IF ~jobExists(j) \/ ~Loads(j) \/ ~jobDefs[j].enabled
           THEN /\ pc' = [pc EXCEPT ![p] = "done"]
                /\ UNCHANGED <<job, ts>>
           ELSE /\ pc' = [pc EXCEPT ![p] = "lock"]
                /\ job' = [job EXCEPT ![p] = j]
                /\ ts' = [ts EXCEPT ![p] = t]
  /\ UNCHANGED <<jobDefs, lockDir, pidFile, stateFile, ATTEMPT, EXIT_CODE,
                 trapSet, hist>>
  /\ UNCHANGED extVars

\* acquire_lock, first command: mkdir "$LOCKFILE"; on failure the runner logs
\* a warning and exits 2.
AcquireLock(p) ==
  /\ pc[p] = "lock"
  /\ IF MkdirOk(job[p])
       THEN /\ lockDir' = [lockDir EXCEPT ![job[p]] = TRUE]
            /\ pc' = [pc EXCEPT ![p] = "pidwrite"]
            /\ ev' = NoEv
            /\ UNCHANGED <<pidFile, job, ts, ATTEMPT, EXIT_CODE, trapSet, hist>>
       ELSE Exited(p, RejectCode)
  /\ UNCHANGED <<jobDefs, stateFile, now>>
  /\ UNCHANGED extVars

\* acquire_lock, rest: echo $$ > "$PIDFILE"; trap ... EXIT
WritePid(p) ==
  /\ pc[p] = "pidwrite"
  /\ pidFile' = [pidFile EXCEPT ![job[p]] = p]
  /\ trapSet' = [trapSet EXCEPT ![p] = TRUE]
  /\ pc' = [pc EXCEPT ![p] = "append"]
  /\ ev' = NoEv
  /\ UNCHANGED <<jobDefs, lockDir, stateFile, now, job, ts, ATTEMPT,
                 EXIT_CODE, hist>>
  /\ UNCHANGED extVars

\* bun -e (lines 193-213): read the array, push the running entry, slice,
\* write the temp file, rename
AppendEntry(p) ==
  /\ pc[p] = "append"
  /\ stateFile' = AppendRunning(stateFile, job[p], ts[p])
  /\ pc' = [pc EXCEPT ![p] = "loop"]
  /\ ev' = NoEv
  /\ UNCHANGED <<jobDefs, lockDir, pidFile, now, job, ts, ATTEMPT,
                 EXIT_CODE, trapSet, hist>>
  /\ UNCHANGED extVars

\* the retry loop (lines 215-253): the loop test, and if it passes one
\* iteration, in which the command runs and ends with exit code c
Attempt(p, c) ==
  /\ pc[p] = "loop"
  /\ IF LoopCond(ATTEMPT[p], jobDefs[job[p]].retries)
       THEN /\ ATTEMPT' = [ATTEMPT EXCEPT ![p] = @ + 1]
            /\ EXIT_CODE' = [EXIT_CODE EXCEPT ![p] = c]
            /\ hist' = [hist EXCEPT ![p] = Append(@, c)]
            /\ pc' = [pc EXCEPT ![p] = IF BreakOnZero(c) THEN "final" ELSE "loop"]
       ELSE /\ pc' = [pc EXCEPT ![p] = "final"]
            /\ UNCHANGED <<ATTEMPT, EXIT_CODE, hist>>
  /\ ev' = NoEv
  /\ UNCHANGED <<jobDefs, lockDir, pidFile, stateFile, now, job, ts, trapSet>>
  /\ UNCHANGED extVars

\* bun -e (lines 259-285): read the array, replace the entry by runId (or
\* push), slice, write the temp file, rename
FinalEntryWrite(p) ==
  /\ pc[p] = "final"
  /\ stateFile' = ReplaceFinal(stateFile,
                    FinalEntry(job[p], ts[p], EXIT_CODE[p], ATTEMPT[p]))
  /\ pc' = [pc EXCEPT ![p] = "exit"]
  /\ ev' = NoEv
  /\ UNCHANGED <<jobDefs, lockDir, pidFile, now, job, ts, ATTEMPT,
                 EXIT_CODE, trapSet, hist>>
  /\ UNCHANGED extVars

\* set -e: a bun -e that fails to write the state file ends the script
WriteFail(p) ==
  /\ pc[p] \in {"append", "final"}
  /\ Exited(p, 1)
  /\ UNCHANGED <<jobDefs, stateFile, now>>
  /\ UNCHANGED extVars

\* lines 287-312 (notification, last log line, exit "$EXIT_CODE"), or the end
\* of a shell that received SIGTERM; the EXIT trap runs in both cases
Exit(p) ==
  /\ pc[p] \in {"exit", "term"}
  /\ Exited(p, IF pc[p] = "term" THEN TermCode ELSE EXIT_CODE[p])
  /\ UNCHANGED <<jobDefs, stateFile, now>>
  /\ UNCHANGED extVars

\* the runner is killed uncatchably (SIGKILL, power loss): no trap runs
Crash(p) ==
  /\ pc[p] \in LockedPcs
  /\ Gone(p, SigKillStatus)
  /\ UNCHANGED <<jobDefs, lockDir, pidFile, stateFile, now>>
  /\ UNCHANGED extVars

\* ---------------------------------------------------------------- server
\* killJob(jobName) (server/lib/runner.ts)
killJob(j) ==
  LET hasPid == pidFile[j] # NoPid
      target == pidFile[j]
      \* process.kill(-pid, "SIGTERM") reaches the group unless ESRCH
      hit    == hasPid /\ pc[target] \in LockedPcs
      stale  == StaleRuns(stateFile, j)
  IN  /\ pc' = IF hit THEN [pc EXCEPT ![target] = "term"] ELSE pc
      /\ pidFile' = IF hasPid THEN [pidFile EXCEPT ![j] = NoPid] ELSE pidFile
      /\ lockDir' = IF hasPid THEN [lockDir EXCEPT ![j] = FALSE] ELSE lockDir
      /\ stateFile' = MarkAll(stateFile, stale, 1)
      /\ ev' = KillEv(j, Len(stale) > 0)
      /\ UNCHANGED <<jobDefs, now, job, ts, ATTEMPT, EXIT_CODE, trapSet, hist>>
      /\ UNCHANGED extVars

\* DELETE /api/runs/:runId -> deleteRun(runId)
DeleteRun(id) ==
  LET idx == FindIndex(stateFile, id)
  IN  /\ idx > 0
      /\ stateFile[idx].status # "running"
      /\ stateFile' = SubSeq(stateFile, 1, idx - 1)
                        \o SubSeq(stateFile, idx + 1, Len(stateFile))
      /\ ev' = NoEv
      /\ UNCHANGED <<jobDefs, lockDir, pidFile, now, procVars>>
      /\ UNCHANGED extVars

\* DELETE /api/runs[?status=...] -> clearRuns(filter); f = "" is no filter
ClearRuns(f) ==
  LET keep == {i \in 1..Len(stateFile) :
                 \/ (f # "" /\ DerivedStatus(stateFile[i]) # f)
                 \/ stateFile[i].status = "running"}
  IN  /\ Len(stateFile) > 0
      /\ stateFile' = SelectSeqIdx(stateFile, keep, 1)
      /\ ev' = NoEv
      /\ UNCHANGED <<jobDefs, lockDir, pidFile, now, procVars>>
      /\ UNCHANGED extVars

RunIds == {stateFile[i].runId : i \in 1..Len(stateFile)}

Next ==
  \/ \E j \in JobNames, s \in Sources, t \in 0..MaxClock : Trigger(j, s, t)
  \/ \E p \in Procs : AcquireLock(p)
  \/ \E p \in Procs : WritePid(p)
  \/ \E p \in Procs : AppendEntry(p)
  \/ \E p \in Procs, c \in AttemptCodes : Attempt(p, c)
  \/ \E p \in Procs : FinalEntryWrite(p)
  \/ \E p \in Procs : WriteFail(p)
  \/ \E p \in Procs : Exit(p)
  \/ \E p \in Procs : Crash(p)
  \/ \E j \in JobNames : killJob(j)
  \/ \E id \in RunIds : DeleteRun(id)
  \/ \E f \in {"", "success", "failed", "killed"} : ClearRuns(f)

Spec == Init /\ [][Next]_vars

\* ============================================================ store cap
\* The runner's two store writes applied over a long history: runs of job a
\* start one per second; each writes its running entry and then its final
\* entry.  Only the run started at second 0 may stay running while later runs
\* come and go, so its final entry can arrive after its record has left the
\* array.

\* the run lifecycle at rest, job a enabled and job b paused
RunRest ==
  /\ jobDefs = [j \in JobNames |-> [enabled |-> (j = "a"), retries |-> 0]]
  /\ lockDir = [j \in JobNames |-> FALSE]
  /\ pidFile = [j \in JobNames |-> NoPid]
  /\ stateFile = << >>
  /\ now = 0
  /\ pc = [p \in Procs |-> "idle"]
  /\ job = [p \in Procs |-> "a"]
  /\ ts = [p \in Procs |-> 0]
  /\ ATTEMPT = [p \in Procs |-> 0]
  /\ EXIT_CODE = [p \in Procs |-> 1]
  /\ trapSet = [p \in Procs |-> FALSE]
  /\ hist = [p \in Procs |-> << >>]
  /\ ev = NoEv

\* a step pushed the entry e onto the array
AppendEv(e) == [op |-> "append", entry |-> e]

\* job a is enabled; job b is paused, or its file does not parse, or it has
\* no file
AbortInit ==
  /\ jobDefs \in
       {[j \in JobNames |-> [enabled |-> (j = "a"), retries |-> 0]],
        [j \in JobNames |->
           IF j = "a" THEN [enabled |-> TRUE, retries |-> 0]
                      ELSE [enabled |-> TRUE, retries |-> 0, broken |-> TRUE]],
        [j \in {"a"} |-> [enabled |-> TRUE, retries |-> 0]]}
  /\ lockDir = [j \in JobNames |-> FALSE]
  /\ pidFile = [j \in JobNames |-> NoPid]
  /\ stateFile = << >>
  /\ now = 0
  /\ pc = [p \in Procs |-> "idle"]
  /\ job = [p \in Procs |-> "a"]
  /\ ts = [p \in Procs |-> 0]
  /\ ATTEMPT = [p \in Procs |-> 0]
  /\ EXIT_CODE = [p \in Procs |-> 1]
  /\ trapSet = [p \in Procs |-> FALSE]
  /\ hist = [p \in Procs |-> << >>]
  /\ ev = NoEv
  /\ ExtRest

AbortSpec == AbortInit /\ [][Next]_vars

lifecycleVars == <<jobDefs, lockDir, pidFile, procVars>>

CapInit == RunRest /\ ExtRest

\* the last record of the array is the running entry of a run started after
\* second 0
LatestRunning ==
  /\ Len(stateFile) > 0
  /\ stateFile[Len(stateFile)].status = "running"
  /\ stateFile[Len(stateFile)].runId # RunId("a", 0)

\* bun -e (lines 193-213) of the run started now, once the run before it
\* has written its final entry
CapAppend ==
  /\ now < MaxAppends
  /\ ~LatestRunning
  /\ stateFile' = AppendRunning(stateFile, "a", now)
  /\ ev' = AppendEv(RunningEntry("a", now))
  /\ now' = now + 1
  /\ UNCHANGED <<lifecycleVars, extVars>>

\* bun -e (lines 259-285) of the run started at second t, which succeeded at
\* its first attempt and has not written its final entry yet
CapFinal(t) ==
  LET e   == FinalEntry("a", t, 0, 1)
      idx == FindIndex(stateFile, e.runId)
  IN  /\ t >= 0 /\ t < now
      /\ IF idx = 0 THEN TRUE ELSE stateFile[idx].status = "running"
      /\ stateFile' = ReplaceFinal(stateFile, e)
      /\ ev' = IF idx = 0 THEN AppendEv(e) ELSE NoEv
      /\ UNCHANGED <<now, lifecycleVars, extVars>>

CapNext ==
  \/ CapAppend
  \/ \E t \in {0, now - 1} : CapFinal(t)

CapSpec == CapInit /\ [][CapNext]_vars

\* ======================================================= store functions
\* The exported functions of server/lib/state.ts, each applied to a state
\* file that holds some array of records.

\* (variant: the record is replaced by the given fields, the rest is reset)
AssignOverwrite(r, updates) ==
  [k \in DOMAIN r |->
     IF k \in DOMAIN updates THEN updates[k]
     ELSE IF k \in {"runId", "jobName"} THEN r[k]
     ELSE IF k = "status" THEN "none" ELSE NoVal]

\* Object.assign(run, updates)
ObjectAssign(r, updates) ==
  [k \in DOMAIN r |-> IF k \in DOMAIN updates THEN updates[k] ELSE r[k]]

\* updateRun: the array written back, and the value returned
updateRun(runs, runId, updates) ==
  LET idx == FindIndex(runs, runId)
  IN  IF idx = 0 THEN runs
      ELSE [runs EXCEPT ![idx] = ObjectAssign(@, updates)]

updateRunResult(runs, runId, updates) ==
  LET idx == FindIndex(runs, runId)
  IN  IF idx = 0 THEN [found |-> FALSE]
      ELSE [found |-> TRUE, run |-> ObjectAssign(runs[idx], updates)]

\* deleteRun: runs.splice(idx, 1) for the first record with the id
deleteRun(runs, runId) ==
  LET idx == FindIndex(runs, runId)
  IN  IF idx = 0 THEN runs
      ELSE SubSeq(runs, 1, idx - 1) \o SubSeq(runs, idx + 1, Len(runs))

\* deleteRuns: toKeep
deleteRuns(runs, runIds) ==
  SelectSeqIdx(runs, {i \in 1..Len(runs) :
                        runs[i].runId \notin runIds \/ runs[i].status = "running"}, 1)

\* clearRuns: toKeep; f = "" is no filter
clearRuns(runs, f) ==
  SelectSeqIdx(runs, {i \in 1..Len(runs) :
                        \/ (f # "" /\ DerivedStatus(runs[i]) # f)
                        \/ runs[i].status = "running"}, 1)

\* what a call of a store function was given and what it returned
StoreEv(o, a, r) == [op |-> o, arg |-> a, result |-> r]

StoreTimes == {0, 1}
StoreIds == {RunId("a", t) : t \in StoreTimes}
\* the records runner.sh and killJob write
StoreRecords ==
  UNION {{RunningEntry("a", t), FinalEntry("a", t, 0, 1), FinalEntry("a", t, 1, 1),
          [RunningEntry("a", t) EXCEPT !.status = "killed", !.exitCode = KilledCode]}
         : t \in StoreTimes}
StoreFilters == {"", "success", "failed", "killed"}
\* the fields killJob passes to updateRun, and two other partial records
StoreUpdates ==
  {[status |-> "killed", exitCode |-> KilledCode],
   [exitCode |-> 0],
   [attempts |-> 2]}

StoreInit ==
  /\ jobDefs = [j \in JobNames |-> [enabled |-> (j = "a"), retries |-> 0]]
  /\ lockDir = [j \in JobNames |-> FALSE]
  /\ pidFile = [j \in JobNames |-> NoPid]
  /\ stateFile \in UNION {[1..n -> StoreRecords] : n \in 0..MaxStoreLen}
  /\ now = 0
  /\ pc = [p \in Procs |-> "idle"]
  /\ job = [p \in Procs |-> "a"]
  /\ ts = [p \in Procs |-> 0]
  /\ ATTEMPT = [p \in Procs |-> 0]
  /\ EXIT_CODE = [p \in Procs |-> 1]
  /\ trapSet = [p \in Procs |-> FALSE]
  /\ hist = [p \in Procs |-> << >>]
  /\ ev = NoEv
  /\ FsRest /\ CronRest /\ SyncRest /\ JobsRest /\ TimeoutRest /\ SseLoopRest
  /\ logFile \in {[id \in S |-> 1] : S \in SUBSET StoreIds}

StoreUpdateRun(id, u) ==
  /\ stateFile' = updateRun(stateFile, id, u)
  /\ ev' = StoreEv("updateRun", <<id, u>>, updateRunResult(stateFile, id, u))
  /\ UNCHANGED <<now, lifecycleVars, extVars>>

\* everything but the state file, the clock, the log files and ev
storeFrame ==
  UNCHANGED <<lifecycleVars, fsVars, cronVars, syncVars, jobsVars, ssePc,
              lastRunsHash, logOffsets, previouslyRunning, currentlyRunning,
              tickRuns, sseTodo, sseCur, sent, logs, timeoutVars>>

\* the log files left when those of the runs ids are unlinked and the unlink
\* of those in stuck throws (the catch block is empty)
Unlinked(files, ids, stuck) ==
  [id \in DOMAIN files \ (ids \ stuck) |-> files[id]]

\* the runs whose log file each delete function hands to unlinkSync
deleteRunLogs(runs, runId) ==
  LET idx == FindIndex(runs, runId)
  IN  IF idx = 0 THEN {} ELSE {runs[idx].runId}
deleteRunsLogs(runs, runIds) ==
  {runs[i].runId : i \in {k \in 1..Len(runs) :
      runs[k].runId \in runIds /\ runs[k].status # "running"}}
clearRunsLogs(runs, f) ==
  {runs[i].runId : i \in {k \in 1..Len(runs) :
      (f = "" \/ DerivedStatus(runs[k]) = f) /\ runs[k].status # "running"}}

\* what a delete call was given, returned, and which unlinks threw
DeleteEv(o, a, r, stuck) == [op |-> o, arg |-> a, result |-> r, stuck |-> stuck]

\* what can go wrong in a delete call: nothing, every unlinkSync throws, or
\* the write of the array throws
Faults == {"none", "unlink", "write"}

\* the log files whose unlink threw
Stuck(ids, fault) ==
  IF fault = "unlink" THEN ids \cap DOMAIN logFile ELSE {}

\* deleteRun: the log file is unlinked, then the array is written; a write
\* that throws is caught and false is returned
StoreDeleteRun(id, fault) ==
  LET found == FindIndex(stateFile, id) # 0
      gone  == deleteRunLogs(stateFile, id)
      stuck == Stuck(gone, fault)
  IN  /\ ~found => fault = "none"
      /\ fault = "unlink" => stuck # {}
      /\ logFile' = Unlinked(logFile, gone, stuck)
      /\ stateFile' = IF fault = "write" THEN stateFile ELSE deleteRun(stateFile, id)
      /\ ev' = DeleteEv("deleteRun", id, found /\ fault # "write", stuck)
      /\ UNCHANGED <<now, closing>>
      /\ storeFrame

StoreDeleteRuns(ids, fault) ==
  LET after == deleteRuns(stateFile, ids)
      gone  == deleteRunsLogs(stateFile, ids)
      stuck == Stuck(gone, fault)
  IN  /\ fault = "unlink" => stuck # {}
      /\ logFile' = Unlinked(logFile, gone, stuck)
      /\ stateFile' = IF fault = "write" THEN stateFile ELSE after
      /\ ev' = DeleteEv("deleteRuns", ids,
                        IF fault = "write" THEN 0 ELSE Len(stateFile) - Len(after),
                        stuck)
      /\ UNCHANGED <<now, closing>>
      /\ storeFrame

StoreClearRuns(f, fault) ==
  LET after == clearRuns(stateFile, f)
      gone  == clearRunsLogs(stateFile, f)
      stuck == Stuck(gone, fault)
  IN  /\ fault = "unlink" => stuck # {}
      /\ logFile' = Unlinked(logFile, gone, stuck)
      /\ stateFile' = IF fault = "write" THEN stateFile ELSE after
      /\ ev' = DeleteEv("clearRuns", f,
                        IF fault = "write" THEN 0 ELSE Len(stateFile) - Len(after),
                        stuck)
      /\ UNCHANGED <<now, closing>>
      /\ storeFrame

StoreNext ==
  \/ \E id \in StoreIds, u \in StoreUpdates : StoreUpdateRun(id, u)
  \/ \E id \in StoreIds, fault \in Faults : StoreDeleteRun(id, fault)
  \/ \E ids \in SUBSET StoreIds, fault \in Faults : StoreDeleteRuns(ids, fault)
  \/ \E f \in StoreFilters, fault \in Faults : StoreClearRuns(f, fault)

StoreSpec == StoreInit /\ [][StoreNext]_vars

\* ================================================== write-temp-then-rename
\* Every writer of the store (the two bun -e scripts of runner.sh, updateRun,
\* deleteRun, deleteRuns, clearRuns) ends with
\*     tmp = stateFile + ".tmp"; writeFileSync(tmp, json); renameSync(tmp, stateFile)
\* writeFileSync is open(tmp, O_WRONLY | O_CREAT | O_TRUNC), write, close.

\* an inode is kept while a path or an open descriptor refers to it
Collect(c, tmp, st, fds) ==
  [i \in Inodes |->
     IF i \in ({tmp, st} \cup {fds[w] : w \in Writers}) THEN c[i] ELSE FreeIno]

FreshIno == CHOOSE i \in Inodes :
              /\ content[i] = FreeIno
              /\ \A k \in 1..(i - 1) : content[k] # FreeIno

\* open(tmp, O_CREAT | O_TRUNC): the inode the path names, a new one if the
\* path does not exist
OpenShared(w) == IF tmpIno = NoIno THEN FreshIno ELSE tmpIno

\* writeFileSync, first part: open creates or truncates the temporary file
WOpen(w) ==
  /\ wpc[w] = "idle"
  /\ LET i == OpenShared(w)
     IN  /\ tmpIno' = i
         /\ wfd' = [wfd EXCEPT ![w] = i]
         /\ content' = [content EXCEPT ![i] = EmptyFile]
  /\ wpc' = [wpc EXCEPT ![w] = "open"]
  /\ UNCHANGED <<stIno, seen, mutators, runVars, cronVars, syncVars, srvVars, timeoutVars>>

\* writeFileSync, second part: write from offset 0, close.  Written into a
\* file that holds another writer's bytes, the result is this writer's array
\* if it is at least as long, and otherwise its array followed by the tail
\* of the other.
WWrite(w, longer) ==
  /\ wpc[w] = "open"
  /\ LET i == wfd[w]
         c == [content EXCEPT ![i] =
                 IF content[i] = EmptyFile \/ longer THEN Snapshot(w) ELSE TornFile]
         fds == [wfd EXCEPT ![w] = NoIno]
     IN  /\ wfd' = fds
         /\ content' = Collect(c, tmpIno, stIno, fds)
  /\ wpc' = [wpc EXCEPT ![w] = "written"]
  /\ UNCHANGED <<tmpIno, stIno, seen, mutators, runVars, cronVars, syncVars, srvVars, timeoutVars>>

\* renameSync(tmp, stateFile); ENOENT if another writer has renamed the
\* temporary file away (the server's catch returns null, bun -e fails)
WRename(w) ==
  /\ wpc[w] = "written"
  /\ IF tmpIno # NoIno
       THEN /\ stIno' = tmpIno
            /\ tmpIno' = NoIno
            /\ content' = Collect(content, NoIno, tmpIno, wfd)
       ELSE UNCHANGED <<stIno, tmpIno, content>>
  /\ wpc' = [wpc EXCEPT ![w] = "idle"]
  /\ UNCHANGED <<wfd, seen, mutators, runVars, cronVars, syncVars, srvVars, timeoutVars>>

\* getRecentRuns: readFileSync(stateFile)
FsRead ==
  /\ seen' = content[stIno]
  /\ UNCHANGED <<tmpIno, stIno, content, wpc, wfd, mutators, runVars, cronVars, syncVars, srvVars, timeoutVars>>

FsInit == RunRest /\ ExtRest

FsNext ==
  \/ \E w \in Writers : WOpen(w)
  \/ \E w \in Writers, longer \in BOOLEAN : WWrite(w, longer)
  \/ \E w \in Writers : WRename(w)
  \/ FsRead

FsSpec == FsInit /\ [][FsNext]_vars

\* ========================================================= cron compiler
\* cron_to_calendar_interval of setup.sh.  A cron string is a sequence of
\* whitespace-separated words; a word is a sequence of tokens, where a
\* number n >= 0 stands for the run of digits that writes n and the
\* negative codes stand for the other characters.
Star == -1
Slash == -2
Dash == -3
Comma == -4
\* a blank inside the rest of the line that read leaves in the last variable
Space == -5

IsNumber(word) == Len(word) = 1 /\ word[1] >= 0

\* read -r min hour dom mon dow <<< "$cron": a missing field is empty, the
\* fifth variable takes the rest of the line
RECURSIVE JoinWords(_, _)
JoinWords(words, i) ==
  IF i > Len(words) THEN << >>
  ELSE IF i = Len(words) THEN words[i]
  ELSE words[i] \o <<Space>> \o JoinWords(words, i + 1)

ReadFields(words) ==
  [k \in 1..5 |-> IF k < 5
                    THEN (IF k <= Len(words) THEN words[k] ELSE << >>)
                    ELSE JoinWords(words, 5)]

\* the pieces of s between occurrences of sep
RECURSIVE SplitAt(_, _)
SplitAt(s, sep) ==
  IF \A i \in 1..Len(s) : s[i] # sep THEN <<s>>
  ELSE LET i == CHOOSE i \in 1..Len(s) :
                  s[i] = sep /\ \A k \in 1..(i - 1) : s[k] # sep
       IN  <<SubSeq(s, 1, i - 1)>> \o SplitAt(SubSeq(s, i + 1, Len(s)), sep)

\* for ((i=0; i<max; i+=step)); step > 0 (with step 0 the loop never ends)
RECURSIVE StepVals(_, _, _)
StepVals(i, step, max) ==
  IF i >= max THEN << >> ELSE <<<<i>>>> \o StepVals(i + step, step, max)

\* for ((i=start; i<=end; i++))
RangeVals(start, end) == [k \in 1..(end - start + 1) |-> <<start + k - 1>>]

\* grep -qE '^\*/[0-9]+$'
IsStep(field) ==
  Len(field) = 3 /\ field[1] = Star /\ field[2] = Slash /\ field[3] >= 0

\* grep -qE '^[0-9]+-[0-9]+$'
IsRange(part) ==
  Len(part) = 3 /\ part[1] >= 0 /\ part[2] = Dash /\ part[3] >= 0

\* result="$result $part", as split into words by the for loops that read it
Words(part) == SelectSeq(SplitAt(part, Space), LAMBDA w : w # << >>)

RECURSIVE ExpandParts(_, _)
ExpandParts(parts, i) ==
  IF i > Len(parts) THEN << >>
  ELSE (IF IsRange(parts[i]) THEN RangeVals(parts[i][1], parts[i][3])
        ELSE Words(parts[i]))
       \o ExpandParts(parts, i + 1)

\* expand_field: the words it prints
expand_field(field, max) ==
  IF field = <<Star>> THEN <<<<Star>>>>
  ELSE IF IsStep(field) THEN StepVals(0, field[3], max)
  ELSE ExpandParts(SplitAt(field, Comma), 1)

CalendarKeys == <<"Minute", "Hour", "Day", "Month", "Weekday">>
\* the second argument of the five expand_field calls
FieldMax == <<60, 24, 32, 13, 7>>

\* [ "$m" != "*" ] && echo "<key>Minute</key>...": the fields that get a key
DictKeys(vals) == [k \in 1..5 |-> vals[k] # <<Star>>]

\* one <dict>: key -> word, for the fields that get a key
Dict(vals) ==
  LET has == DictKeys(vals)
  IN  [key \in {CalendarKeys[k] : k \in {k \in 1..5 : has[k]}} |->
         vals[CHOOSE k \in 1..5 : CalendarKeys[k] = key]]

\* generate_dicts: the five nested for loops, minute outermost
generate_dicts(v) ==
  LET n == [k \in 1..5 |-> Len(v[k])]
      total == n[1] * n[2] * n[3] * n[4] * n[5]
      \* the k-th loop's position in the iteration numbered i (from 0)
      pos(i, k) ==
        LET inner == IF k = 5 THEN 1
                     ELSE IF k = 4 THEN n[5]
                     ELSE IF k = 3 THEN n[4] * n[5]
                     ELSE IF k = 2 THEN n[3] * n[4] * n[5]
                     ELSE n[2] * n[3] * n[4] * n[5]
        IN  ((i \div inner) % n[k]) + 1
  IN  [i \in 1..total |-> Dict([k \in 1..5 |-> v[k][pos(i - 1, k)]])]

\* (variant: the <array> wrapper is always written)
AlwaysWrapped(count) == TRUE

\* if [ "$count" -eq 1 ] ... else <array> ... </array>
Wrapped(count) == count # 1

\* what the function prints, and its exit status
cron_to_calendar_interval(words) ==
  LET f == ReadFields(words)
      dicts == generate_dicts([k \in 1..5 |-> expand_field(f[k], FieldMax[k])])
  IN  [called |-> TRUE, status |-> 0,
       wrapped |-> Wrapped(Len(dicts)), dicts |-> dicts]

\* the fields the compiler is called with
MinuteForms == {<<Star>>, <<0>>, <<Star, Slash, 20>>, <<1, Dash, 5, Slash, 2>>,
                <<0, Comma, 0>>}
HourForms == {<<Star>>, <<7>>, <<9, Dash, 11>>, <<3, Dash, 1>>}
DomForms == {<<Star>>, <<1>>, <<Star, Slash, 20>>, <<1, Comma, 15>>}
MonForms == {<<Star>>, <<6>>, <<Star, Slash, 6>>}
DowForms == {<<Star>>, <<3>>, <<1, Dash, 5>>}

FiveFields ==
  {<<mi, h, d, mo, dw>> : mi \in MinuteForms, h \in HourForms, d \in DomForms,
                          mo \in MonForms, dw \in DowForms}
\* strings with a field missing and with a field too many
CronInputs ==
  FiveFields \cup {SubSeq(c, 1, 4) : c \in FiveFields}
             \cup {c \o <<<<2>>>> : c \in FiveFields}

CronInit ==
  /\ RunRest /\ FsRest /\ SyncRest /\ SrvRest /\ TimeoutRest
  /\ cron \in CronInputs
  /\ calendar = NoOutput

\* CALENDAR_XML="$(cron_to_calendar_interval "$SCHEDULE")"
Compile ==
  /\ calendar = NoOutput
  /\ calendar' = cron_to_calendar_interval(cron)
  /\ UNCHANGED <<cron, runVars, fsVars, syncVars, srvVars, timeoutVars>>

CronNext == Compile

CronSpec == CronInit /\ [][CronNext]_vars

\* ========================================================= schedule sync
\* The main part of setup.sh (what syncSchedule executes): for every job file
\* with a schedule that is not paused, unload the job's launchd service,
\* write its plist and load it; then remove the plists no job file stands
\* behind.  A label is written as the job name it ends with.

NoSchedule == << >>
\* "0 7 * * *" and "0 9-11 * * *"
SyncSchedules ==
  {<<<<0>>, <<7>>, <<Star>>, <<Star>>, <<Star>>>>,
   <<<<0>>, <<9, Dash, 11>>, <<Star>>, <<Star>>, <<Star>>>>}
\* schedule and enabled as the bun -e of lines 432-439 reads them
YamlDefs == [schedule : SyncSchedules \cup {NoSchedule}, enabled : BOOLEAN]

Without(f, k) == [x \in DOMAIN f \ {k} |-> f[x]]
With(f, k, v) == [x \in DOMAIN f \cup {k} |-> IF x = k THEN v ELSE f[x]]
\* (variant: nothing is removed)
KeepAll(f, S) == f
\* the entries of f whose key is in S
Restrict(f, S) == [x \in DOMAIN f \cap S |-> f[x]]

Running(q) == syncer[q].pc # "idle"

\* the setup.sh runs in progress no longer run alone over fixed definitions
Disturbed(sy) ==
  [q \in Syncers |-> IF sy[q].pc = "idle" THEN sy[q]
                     ELSE [sy[q] EXCEPT !.clean = FALSE, !.watch = NoWatch]]

\* a job file is created or rewritten (createJob, updateJob, toggleJob, an
\* editor)
EditYaml(j, d) ==
  /\ IF j \in DOMAIN jobYaml THEN jobYaml[j] # d ELSE TRUE
  /\ jobYaml' = With(jobYaml, j, d)
  /\ syncer' = Disturbed(syncer)
  /\ UNCHANGED <<plists, loaded, lastSync, runVars, fsVars, cronVars, srvVars, timeoutVars>>

\* a job file is removed (deleteJob, delete-job.sh)
RemoveYaml(j) ==
  /\ j \in DOMAIN jobYaml
  /\ jobYaml' = Without(jobYaml, j)
  /\ syncer' = Disturbed(syncer)
  /\ UNCHANGED <<plists, loaded, lastSync, runVars, fsVars, cronVars, srvVars, timeoutVars>>

\* lines 409-425: COUNT, INSTALLED_PLISTS, JOB_LIST
SyncStart(q) ==
  /\ ~Running(q)
  /\ LET alone == \A r \in Syncers : ~Running(r)
         mine  == [IdleSyncer EXCEPT
                     !.pc = "next",
                     !.todo = DOMAIN jobYaml,
                     !.clean = alone,
                     !.watch = IF alone /\ lastSync.ran /\ lastSync.defs = jobYaml
                                 THEN [on |-> TRUE, plists |-> plists,
                                       loaded |-> loaded]
                                 ELSE NoWatch]
     IN  syncer' = [Disturbed(syncer) EXCEPT ![q] = mine]
  /\ UNCHANGED <<jobYaml, plists, loaded, lastSync, runVars, fsVars, cronVars, srvVars, timeoutVars>>

\* lines 427-449 for the next job of JOB_LIST: read schedule and enabled,
\* skip the job without schedule and the paused job, otherwise note the label
\* and launchctl bootout it
SyncUnload(q, j) ==
  /\ syncer[q].pc = "next"
  /\ j \in syncer[q].todo
  /\ IF j \notin DOMAIN jobYaml \/ jobYaml[j].schedule = NoSchedule
          \/ ~jobYaml[j].enabled
       THEN /\ syncer' = [syncer EXCEPT ![q].todo = @ \ {j}]
            /\ UNCHANGED loaded
       ELSE /\ syncer' = [syncer EXCEPT ![q].installed = @ \cup {j},
                                        ![q].cur = j,
                                        ![q].sched = jobYaml[j].schedule,
                                        ![q].pc = "write"]
            /\ loaded' = Without(loaded, j)
  /\ UNCHANGED <<jobYaml, plists, lastSync, runVars, fsVars, cronVars, srvVars, timeoutVars>>

\* (variant: cat >> "$PLIST_FILE", which keeps what the file held)
AppendFile(old, doc) == old \o <<doc>>

\* cat > "$PLIST_FILE": the file holds the one document written
WriteFile(old, doc) == <<doc>>

\* lines 451-484: compile the schedule, write the plist
SyncWrite(q) ==
  /\ syncer[q].pc = "write"
  /\ LET j   == syncer[q].cur
         old == IF j \in DOMAIN plists THEN plists[j] ELSE << >>
     IN  plists' = With(plists, j,
                        WriteFile(old, cron_to_calendar_interval(syncer[q].sched)))
  /\ syncer' = [syncer EXCEPT ![q].pc = "load"]
  /\ UNCHANGED <<jobYaml, loaded, lastSync, runVars, fsVars, cronVars, srvVars, timeoutVars>>

\* lines 486-490: launchctl bootstrap, which fails for a service that is
\* loaded or a plist that is gone; set -e then ends the script
SyncLoad(q) ==
  /\ syncer[q].pc = "load"
  /\ LET j == syncer[q].cur
     IN  IF j \in DOMAIN loaded \/ j \notin DOMAIN plists
           THEN /\ syncer' = [syncer EXCEPT ![q] = IdleSyncer]
                /\ lastSync' = NoSync
                /\ UNCHANGED loaded
           ELSE /\ loaded' = With(loaded, j, plists[j])
                /\ syncer' = [syncer EXCEPT ![q].pc = "next",
                                            ![q].todo = @ \ {j},
                                            ![q].cur = "",
                                            ![q].sched = << >>]
                /\ UNCHANGED lastSync
  /\ UNCHANGED <<jobYaml, plists, runVars, fsVars, cronVars, srvVars, timeoutVars>>

\* lines 493-520: bootout and rm every plist whose label was not installed
\* by this run; the script ends
SyncCleanup(q) ==
  /\ syncer[q].pc = "next"
  /\ syncer[q].todo = {}
  /\ LET stale == DOMAIN plists \ syncer[q].installed
     IN  /\ loaded' = Restrict(loaded, DOMAIN loaded \ stale)
         /\ plists' = Restrict(plists, DOMAIN plists \ stale)
  /\ lastSync' = IF syncer[q].clean
                   THEN [ran |-> TRUE, defs |-> jobYaml,
                         again |-> syncer[q].watch.on]
                   ELSE NoSync
  /\ syncer' = [syncer EXCEPT ![q] = IdleSyncer]
  /\ UNCHANGED <<jobYaml, runVars, fsVars, cronVars, srvVars, timeoutVars>>

SyncInit == RunRest /\ ExtRest

SyncNext ==
  \/ \E j \in JobNames, d \in YamlDefs : EditYaml(j, d)
  \/ \E j \in JobNames : RemoveYaml(j)
  \/ \E q \in 1..NSyncs : SyncStart(q)
  \/ \E q \in 1..NSyncs, j \in JobNames : SyncUnload(q, j)
  \/ \E q \in 1..NSyncs : SyncWrite(q)
  \/ \E q \in 1..NSyncs : SyncLoad(q)
  \/ \E q \in 1..NSyncs : SyncCleanup(q)

SyncSpec == SyncInit /\ [][SyncNext]_vars

\* ------------------------------------------------ concurrent schedule syncs
\* setup.sh runs started while another one is in progress (syncSchedule after
\* createJob, updateJob, deleteJob, toggleJob; setup.sh from a terminal), over
\* job files that do not change

\* every set of job files
AllYaml ==
  UNION {[S -> YamlDefs] : S \in SUBSET JobNames}

\* the jobs setup.sh installs for these definitions
ScheduledJobs(defs) ==
  {j \in DOMAIN defs : defs[j].schedule # NoSchedule /\ defs[j].enabled}

\* the plists a setup.sh run alone leaves for these definitions
Registration(defs) ==
  [j \in ScheduledJobs(defs) |->
     <<cron_to_calendar_interval(defs[j].schedule)>>]

\* the job files are any set of definitions, launchd holds what an earlier
\* sync over any set of definitions left
ConcInit ==
  /\ RunRest /\ FsRest /\ CronRest /\ SrvRest /\ TimeoutRest
  /\ jobYaml \in AllYaml
  /\ \E prior \in AllYaml :
        /\ plists = Registration(prior)
        /\ loaded = Registration(prior)
  /\ syncer = [q \in Syncers |-> IdleSyncer]
  /\ lastSync = NoSync

ConcNext ==
  \/ \E q \in Syncers : SyncStart(q)
  \/ \E q \in Syncers, j \in JobNames : SyncUnload(q, j)
  \/ \E q \in Syncers : SyncWrite(q)
  \/ \E q \in Syncers : SyncLoad(q)
  \/ \E q \in Syncers : SyncCleanup(q)

ConcSpec == ConcInit /\ [][ConcNext]_vars

\* ------------------------------------------------- server/lib/jobs.ts
\* createJob, updateJob, deleteJob and toggleJob on the two job directories.
\* A job name is the sequence of its characters; the text of a YAML file is
\* what js-yaml makes of it (kind, doc) and who wrote it (form).

\* the characters JOB_NAME_RE accepts
NameChars ==
  {"a", "b", "c", "d", "e", "f", "g", "h", "i", "j", "k", "l", "m", "n",
   "o", "p", "q", "r", "s", "t", "u", "v", "w", "x", "y", "z",
   "0", "1", "2", "3", "4", "5", "6", "7", "8", "9", "-"}

\* a, b, A, ../a and the empty name
ApiNames == {<<"a">>, <<"b">>, <<"A">>, <<".", ".", "/", "a">>, << >>}

validateJobName(name) ==
  /\ Len(name) > 0
  /\ \A i \in 1..Len(name) : name[i] \in NameChars

Includes(name, sub) ==
  \E i \in 1..Len(name) :
    /\ i + Len(sub) - 1 <= Len(name)
    /\ SubSeq(name, i, i + Len(sub) - 1) = sub

\* the values of the enabled key: the booleans and the string 'false'
EnabledValues == {"B:true", "B:false", "S:false"}

\* the mappings a job file holds: prompt and schedule, enabled or not
MapDocs ==
  {[k \in {"prompt", "schedule"} |-> IF k = "prompt" THEN "S:hello"
                                                     ELSE "S:0 7 * * *"]}
  \cup {[k \in {"prompt", "schedule", "enabled"} |->
           IF k = "prompt" THEN "S:hello"
           ELSE IF k = "schedule" THEN "S:0 7 * * *" ELSE v] :
        v \in EnabledValues}

NoDoc == [x \in {} |-> ""]

\* a text typed by a user: a mapping, a bare scalar, nothing, or something
\* js-yaml cannot parse
Typed(kind, doc) == [kind |-> kind, doc |-> doc, form |-> "typed"]
TypedTexts ==
  {Typed("map", d) : d \in MapDocs}
  \cup {Typed("scalar", NoDoc), Typed("empty", NoDoc)}
Malformed == Typed("malformed", NoDoc)
Bodies == TypedTexts \cup {Malformed}

\* js-yaml load: throws on a text it cannot parse, undefined for no document
loadYaml(text) ==
  [threw |-> text.kind = "malformed", kind |-> text.kind, doc |-> text.doc]

\* js-yaml dump of a mapping: the same keys and values, in js-yaml's layout
dumpYaml(parsed) == [kind |-> "map", doc |-> parsed, form |-> "dumped"]

\* (variant: only jobs/ is looked at)
resolveSharedOnly(name) ==
  IF name \in DOMAIN jobsDir THEN "shared" ELSE "null"
\* resolveJobFile: jobs.local/ takes precedence over jobs/
resolveJobFile(name) ==
  IF name \in DOMAIN jobsLocalDir THEN "local"
  ELSE IF name \in DOMAIN jobsDir THEN "shared"
  ELSE "null"

FileAt(where, name) ==
  IF where = "local" THEN jobsLocalDir[name] ELSE jobsDir[name]

\* the job files setup.sh runs over: local overrides shared
Effective(shared, local) ==
  [n \in DOMAIN shared \cup DOMAIN local |->
     IF n \in DOMAIN local THEN local[n] ELSE shared[n]]

\* what a call returned, and whether it called syncSchedule()
JobsEv(o, name, yaml, ok, error, enabled, sync) ==
  [op |-> o, name |-> name, yaml |-> yaml, ok |-> ok, error |-> error,
   enabled |-> enabled, sync |-> sync]

Rejected(o, name, yaml, error) ==
  /\ ev' = JobsEv(o, name, yaml, FALSE, error, "none", FALSE)
  /\ UNCHANGED <<jobsDir, jobsLocalDir, synced>>

\* writeFileSync(jobFile, text) followed by syncSchedule()
WriteAndSync(where, name, text) ==
  /\ IF where = "local"
       THEN /\ jobsLocalDir' = With(jobsLocalDir, name, text)
            /\ UNCHANGED jobsDir
       ELSE /\ jobsDir' = With(jobsDir, name, text)
            /\ UNCHANGED jobsLocalDir
  /\ synced' = Effective(jobsDir', jobsLocalDir')

jobsFrame ==
  UNCHANGED <<lockFiles, stateFile, now, lifecycleVars, fsVars, cronVars,
              syncVars, sseVars, timeoutVars>>

createJob(name, yaml) ==
  /\ IF ~validateJobName(name)
       THEN Rejected("createJob", name, yaml, "Job name must match [a-z0-9-]+")
     ELSE IF resolveJobFile(name) # "null"
       THEN Rejected("createJob", name, yaml, "Job already exists")
     ELSE IF loadYaml(yaml).threw
       THEN Rejected("createJob", name, yaml, "Invalid YAML")
     ELSE /\ WriteAndSync("shared", name, yaml)
          /\ ev' = JobsEv("createJob", name, yaml, TRUE, "", "none", TRUE)
  /\ jobsFrame

updateJob(name, yaml) ==
  /\ IF ~validateJobName(name)
       THEN Rejected("updateJob", name, yaml, "Job name must match [a-z0-9-]+")
     ELSE IF resolveJobFile(name) = "null"
       THEN Rejected("updateJob", name, yaml, "Job not found")
     ELSE IF loadYaml(yaml).threw
       THEN Rejected("updateJob", name, yaml, "Invalid YAML")
     ELSE /\ WriteAndSync(resolveJobFile(name), name, yaml)
          /\ ev' = JobsEv("updateJob", name, yaml, TRUE, "", "none", TRUE)
  /\ jobsFrame

\* (variant: the lock is not looked at)
lockIgnored(name) == FALSE
\* existsSync(lockFile)
lockExists(name) == name \in lockFiles

deleteJob(name) ==
  /\ IF ~validateJobName(name)
       THEN Rejected("deleteJob", name, Malformed, "Invalid job name")
     ELSE IF \/ Includes(name, <<"/">>) \/ Includes(name, <<".", ".">>)
             \/ Includes(name, <<"\\">>)
       THEN Rejected("deleteJob", name, Malformed, "Invalid job name")
     ELSE IF resolveJobFile(name) = "null"
       THEN Rejected("deleteJob", name, Malformed, "Job not found")
     ELSE IF lockExists(name)
       THEN Rejected("deleteJob", name, Malformed, "currently running")
     ELSE /\ IF resolveJobFile(name) = "local"
               THEN /\ jobsLocalDir' = Without(jobsLocalDir, name)
                    /\ UNCHANGED jobsDir
               ELSE /\ jobsDir' = Without(jobsDir, name)
                    /\ UNCHANGED jobsLocalDir
          /\ synced' = Effective(jobsDir', jobsLocalDir')
          /\ ev' = JobsEv("deleteJob", name, Malformed, TRUE, "", "none", TRUE)
  /\ jobsFrame

\* (variant: the job is paused whatever it was)
AlwaysPause(parsed) ==
  [k \in DOMAIN parsed \cup {"enabled"} |->
     IF k = "enabled" THEN "B:false" ELSE parsed[k]]

\* lines 174-180: parsed.enabled = false, or delete parsed.enabled
Toggled(parsed) ==
  IF "enabled" \in DOMAIN parsed /\ parsed["enabled"] = "B:false"
    THEN [k \in DOMAIN parsed \ {"enabled"} |-> parsed[k]]
    ELSE [k \in DOMAIN parsed \cup {"enabled"} |->
            IF k = "enabled" THEN "B:false" ELSE parsed[k]]

\* parsed.enabled !== false
wasEnabled(parsed) ==
  ~("enabled" \in DOMAIN parsed /\ parsed["enabled"] = "B:false")

toggleJob(name) ==
  /\ IF ~validateJobName(name)
       THEN Rejected("toggleJob", name, Malformed, "Invalid job name")
     ELSE IF resolveJobFile(name) = "null"
       THEN Rejected("toggleJob", name, Malformed, "Job not found")
     ELSE LET where  == resolveJobFile(name)
              parsed == loadYaml(FileAt(where, name))
          IN  \* a text that does not parse throws in loadYaml, undefined
              \* and a scalar throw at the access to .enabled
              IF parsed.threw \/ parsed.kind # "map"
                THEN Rejected("toggleJob", name, Malformed, "Toggle failed")
                ELSE /\ WriteAndSync(where, name, dumpYaml(Toggled(parsed.doc)))
                     /\ ev' = JobsEv("toggleJob", name, Malformed, TRUE, "",
                                     IF wasEnabled(parsed.doc) THEN "false"
                                                               ELSE "true",
                                     TRUE)
  /\ jobsFrame

\* runner.sh takes or releases the lock of a job
LockChange(name) ==
  /\ validateJobName(name)
  /\ lockFiles' = IF name \in lockFiles THEN lockFiles \ {name}
                                        ELSE lockFiles \cup {name}
  /\ ev' = NoEv
  /\ UNCHANGED <<jobsDir, jobsLocalDir, synced, stateFile, now, lifecycleVars,
                 fsVars, cronVars, syncVars, sseVars, timeoutVars>>

\* jobs/ is empty, jobs.local/ is empty or holds a job a, a sync has run
JobsInit ==
  /\ RunRest /\ FsRest /\ CronRest /\ SyncRest /\ SseRest /\ TimeoutRest
  /\ jobsDir = NoFiles
  /\ jobsLocalDir \in {NoFiles} \cup
       {[n \in {<<"a">>} |-> Typed("map", d)] : d \in MapDocs}
  /\ lockFiles = {}
  /\ synced = Effective(jobsDir, jobsLocalDir)

JobsNext ==
  \/ \E name \in ApiNames, yaml \in Bodies : createJob(name, yaml)
  \/ \E name \in ApiNames, yaml \in Bodies : updateJob(name, yaml)
  \/ \E name \in ApiNames : deleteJob(name)
  \/ \E name \in ApiNames : toggleJob(name)
  \/ \E name \in ApiNames : LockChange(name)

JobsSpec == JobsInit /\ [][JobsNext]_vars

\* ------------------------------------------- server/routes/events.ts
\* One connection's loop, in the steps at which the state file and the log
\* files can change under it: the read of the state file, the size check and
\* the read of getLogContentFromOffset for each run of the two for loops, the
\* status event, the sleep. A log file holds the bytes 1, 2, ... in the
\* order the runner appended them.

\* `${r.runId}:${r.status || r.exitCode}` of every record
RunsHash(rs) ==
  [set |-> TRUE,
   h |-> [i \in 1..Len(rs) |->
            [runId |-> rs[i].runId,
             status |-> rs[i].status,
             exitCode |-> IF rs[i].status # "none" THEN NoVal
                                               ELSE rs[i].exitCode]]]

Reverse(rs) == [i \in 1..Len(rs) |-> rs[Len(rs) + 1 - i]]

Slice(rs, n) == SubSeq(rs, 1, IF Len(rs) < n THEN Len(rs) ELSE n)

\* (variant: the array is not reversed)
OldestFirst(rs) == Slice(rs, StatusLimit)
\* runs.reverse().slice(0, 50)
StatusData(rs) == Slice(Reverse(rs), StatusLimit)

StatusEv(data) == [op |-> "status", data |-> data]
LogEv(id, bytes, offset) ==
  [op |-> "log", runId |-> id, content |-> bytes, offset |-> offset]

\* logOffsets[run.runId] || 0
OffsetOf(id) == IF id \in DOMAIN logOffsets THEN logOffsets[id] ELSE 0

SentOf(id) == IF id \in DOMAIN sent THEN sent[id] ELSE << >>

\* buffer.subarray(offset) of a file of size bytes
Subarray(size, offset) == [i \in 1..(size - offset) |-> offset + i]

RunningIds(rs) == {rs[i].runId : i \in {k \in 1..Len(rs) : rs[k].status = "running"}}

\* what the loop of a connection leaves alone
diskFrame ==
  UNCHANGED <<stateFile, now, lifecycleVars, fsVars, cronVars, syncVars,
              jobsVars, logFile, closing, timeoutVars>>
sseFrame == diskFrame /\ UNCHANGED logs

LogsOf(id) == IF id \in DOMAIN logs THEN logs[id] ELSE << >>

\* (variant: every log event is appended)
alwaysAppend(prev, data) ==
  With(prev, data.runId,
       (IF data.runId \in DOMAIN prev THEN prev[data.runId] ELSE << >>)
         \o data.content)
\* the subscriber's handler of a log event: setLogs in main.tsx
onLog(prev, data) ==
  LET existing == IF data.runId \in DOMAIN prev THEN prev[data.runId] ELSE << >>
  IN  IF data.offset = 0 THEN With(prev, data.runId, data.content)
      ELSE IF data.offset < Len(existing) THEN prev
      ELSE With(prev, data.runId, existing \o data.content)

\* lines 18-31: getRecentRuns, currentlyRunning, and the runs of
\* previouslyRunning that are no longer running and still in the array
SseTick ==
  /\ ssePc = "sleep"
  /\ tickRuns' = stateFile
  /\ currentlyRunning' = RunningIds(stateFile)
  /\ sseTodo' = {id \in previouslyRunning \ RunningIds(stateFile) :
                   FindIndex(stateFile, id) # 0}
  /\ ssePc' = "flush"
  /\ ev' = NoEv
  /\ UNCHANGED <<lastRunsHash, logOffsets, previouslyRunning, sseCur, sent>>
  /\ sseFrame

\* getLogContentFromOffset, lines 18-24, for the next run of the loop:
\* null without a file, empty content when the file has not grown
SseStat(id) ==
  /\ ssePc \in {"flush", "tail"}
  /\ ~sseCur.on
  /\ id \in sseTodo
  /\ IF id \in DOMAIN logFile /\ logFile[id] > OffsetOf(id)
       THEN /\ sseCur' = [on |-> TRUE, runId |-> id, size |-> logFile[id]]
            /\ UNCHANGED sseTodo
       ELSE /\ sseTodo' = sseTodo \ {id}
            /\ UNCHANGED sseCur
  /\ ev' = NoEv
  /\ UNCHANGED <<ssePc, lastRunsHash, logOffsets, previouslyRunning,
                 currentlyRunning, tickRuns, sent>>
  /\ sseFrame

\* getLogContentFromOffset, lines 25-28, and the log event: the whole file
\* is read, the bytes after the offset are the content, stats.size is the
\* new offset
SseReadLog ==
  /\ sseCur.on
  /\ LET id      == sseCur.runId
         offset  == OffsetOf(id)
         bytes   == Subarray(logFile[id], offset)
     IN  /\ logOffsets' = With(logOffsets, id, sseCur.size)
         /\ ev' = LogEv(id, bytes, offset)
         /\ sent' = With(sent, id, SentOf(id) \o bytes)
         /\ logs' = onLog(logs, LogEv(id, bytes, offset))
         /\ sseTodo' = sseTodo \ {id}
  /\ sseCur' = NoCur
  /\ UNCHANGED <<ssePc, lastRunsHash, previouslyRunning, currentlyRunning,
                 tickRuns>>
  /\ diskFrame

\* lines 50-59: the status event when the hash differs; the tail loop is
\* next
SseStatus ==
  /\ ssePc = "flush"
  /\ sseTodo = {}
  /\ ~sseCur.on
  /\ IF RunsHash(tickRuns) # lastRunsHash
       THEN /\ lastRunsHash' = RunsHash(tickRuns)
            /\ ev' = StatusEv(StatusData(tickRuns))
            /\ tickRuns' = Reverse(tickRuns)
       ELSE /\ ev' = NoEv
            /\ UNCHANGED <<lastRunsHash, tickRuns>>
  /\ ssePc' = "tail"
  /\ sseTodo' = currentlyRunning
  /\ UNCHANGED <<logOffsets, previouslyRunning, currentlyRunning, sseCur, sent>>
  /\ sseFrame

\* (variant: the runs seen running are kept in previouslyRunning)
SseSleepKeeps ==
  /\ ssePc = "tail"
  /\ sseTodo = {}
  /\ ~sseCur.on
  /\ previouslyRunning' = previouslyRunning \cup currentlyRunning
  /\ ssePc' = "sleep"
  /\ ev' = NoEv
  /\ UNCHANGED <<lastRunsHash, logOffsets, currentlyRunning, tickRuns, sseTodo,
                 sseCur, sent>>
  /\ sseFrame
\* lines 77-83: previouslyRunning = currentlyRunning; stream.sleep(1000)
SseSleep ==
  /\ ssePc = "tail"
  /\ sseTodo = {}
  /\ ~sseCur.on
  /\ previouslyRunning' = currentlyRunning
  /\ ssePc' = "sleep"
  /\ ev' = NoEv
  /\ UNCHANGED <<lastRunsHash, logOffsets, currentlyRunning, tickRuns, sseTodo,
                 sseCur, sent>>
  /\ sseFrame

\* the state file holds 0 or 50 finished runs
SseBases == {0, StatusLimit}

\* runner.sh writes the running entry of a new run, once the run before it
\* has written its final entry
RunStarts ==
  /\ \E k \in SseBases : Len(stateFile) >= k /\ Len(stateFile) < k + MaxSseRuns
  /\ RunningIds(stateFile) = {}
  /\ closing = {}
  /\ stateFile' = AppendRunning(stateFile, "a", now)
  /\ now' = now + 1
  /\ ev' = NoEv
  /\ UNCHANGED <<logFile, closing>>
  /\ storeFrame

\* runner.sh writes the final entry of the running run
RunEnds(id, code) ==
  /\ id \in RunningIds(stateFile)
  /\ stateFile' = ReplaceFinal(stateFile, FinalEntry(id[1], id[2], code, 1))
  /\ closing' = closing \cup {id}
  /\ ev' = NoEv
  /\ UNCHANGED <<now, logFile>>
  /\ storeFrame

\* the runner (log, tee -a, >> "$LOG_FILE") appends a byte to the log of
\* the running run
LogAppend(id) ==
  /\ id \in RunningIds(stateFile)
  /\ IF id \in DOMAIN logFile THEN logFile[id] < MaxLog ELSE TRUE
  /\ logFile' = With(logFile, id,
                     IF id \in DOMAIN logFile THEN logFile[id] + 1 ELSE 1)
  /\ ev' = NoEv
  /\ UNCHANGED <<stateFile, now, closing>>
  /\ storeFrame

\* runner.sh line 311: after the final entry is stored, log "Done" appends
\* a last line to the log file, and the runner exits
LogDone(id) ==
  /\ id \in closing
  /\ logFile' = With(logFile, id,
                     IF id \in DOMAIN logFile THEN logFile[id] + 1 ELSE 1)
  /\ closing' = closing \ {id}
  /\ ev' = NoEv
  /\ UNCHANGED <<stateFile, now>>
  /\ storeFrame

\* the subscriber's EventSource connects again: the route starts a new loop
\* with its own lastRunsHash, logOffsets and previouslyRunning, and onopen
\* empties the subscriber's logs
Reconnect ==
  /\ lastRunsHash # NoHash
  /\ ssePc' = "sleep"
  /\ lastRunsHash' = NoHash
  /\ logOffsets' = << >>
  /\ previouslyRunning' = {}
  /\ currentlyRunning' = {}
  /\ tickRuns' = << >>
  /\ sseTodo' = {}
  /\ sseCur' = NoCur
  /\ sent' = << >>
  /\ logs' = << >>
  /\ ev' = [op |-> "open"]
  /\ diskFrame

SseInit ==
  /\ jobDefs = [j \in JobNames |-> [enabled |-> (j = "a"), retries |-> 0]]
  /\ lockDir = [j \in JobNames |-> FALSE]
  /\ pidFile = [j \in JobNames |-> NoPid]
  /\ \E k \in SseBases :
       /\ stateFile = [i \in 1..k |-> FinalEntry("a", i - 1, 0, 1)]
       /\ now = k
  /\ pc = [p \in Procs |-> "idle"]
  /\ job = [p \in Procs |-> "a"]
  /\ ts = [p \in Procs |-> 0]
  /\ ATTEMPT = [p \in Procs |-> 0]
  /\ EXIT_CODE = [p \in Procs |-> 1]
  /\ trapSet = [p \in Procs |-> FALSE]
  /\ hist = [p \in Procs |-> << >>]
  /\ ev = NoEv
  /\ FsRest /\ CronRest /\ SyncRest /\ JobsRest /\ SseRest /\ TimeoutRest

SseNext ==
  \/ SseTick
  \/ \E id \in sseTodo : SseStat(id)
  \/ SseReadLog
  \/ SseStatus
  \/ SseSleep
  \/ RunStarts
  \/ \E id \in RunningIds(stateFile), code \in AttemptCodes : RunEnds(id, code)
  \/ \E id \in RunningIds(stateFile) : LogAppend(id)
  \/ \E id \in closing : LogDone(id)

SseSpec == SseInit /\ [][SseNext]_vars

\* the connection stays open: the loop goes on after every sleep(1000), and
\* every step of it ends
SseFairness ==
  /\ WF_vars(SseTick)
  /\ WF_vars(\E id \in sseTodo : SseStat(id))
  /\ WF_vars(SseReadLog)
  /\ WF_vars(SseStatus)
  /\ WF_vars(SseSleep)

SseLiveSpec == SseInit /\ [][SseNext]_vars /\ SseFairness

\* the loop, the runner and a subscriber that connects again
WebNext ==
  \/ SseTick
  \/ \E id \in sseTodo : SseStat(id)
  \/ SseReadLog
  \/ SseStatus
  \/ SseSleep
  \/ RunStarts
  \/ \E id \in RunningIds(stateFile), code \in AttemptCodes : RunEnds(id, code)
  \/ \E id \in RunningIds(stateFile) : LogAppend(id)
  \/ \E id \in closing : LogDone(id)
  \/ Reconnect

WebSpec == SseInit /\ [][WebNext]_vars

\* ------------------------------------------- runner.sh, timed attempts
\* The retry loop with its iteration in two steps: the loop test with the
\* choice of TIMEOUT_CMD, and the end of the command, by itself or because
\* timeout(1) ended it. The other steps of the runner are those above.

\* lines 219-227
ChooseTimeoutCmd ==
  IF ~JOB_TIMEOUT THEN ""
  ELSE IF "gtimeout" \in commands THEN "gtimeout"
  ELSE IF "timeout" \in commands THEN "timeout"
  ELSE ""

timedFrame ==
  UNCHANGED <<jobDefs, lockDir, pidFile, stateFile, now, job, ts, trapSet,
              JOB_TIMEOUT, commands, fsVars, cronVars, syncVars, srvVars>>

\* lines 215-227: the loop test, ATTEMPT, TIMEOUT_CMD
TimeoutCmd(p) ==
  /\ pc[p] = "loop"
  /\ IF LoopCond(ATTEMPT[p], jobDefs[job[p]].retries)
       THEN /\ ATTEMPT' = [ATTEMPT EXCEPT ![p] = @ + 1]
            /\ TIMEOUT_CMD' = [TIMEOUT_CMD EXCEPT ![p] = ChooseTimeoutCmd]
            /\ pc' = [pc EXCEPT ![p] = "claude"]
       ELSE /\ pc' = [pc EXCEPT ![p] = "final"]
            /\ UNCHANGED <<ATTEMPT, TIMEOUT_CMD>>
  /\ ev' = NoEv
  /\ UNCHANGED <<EXIT_CODE, hist>>
  /\ timedFrame

\* lines 229-252: EXIT_CODE=$?, break on 0, otherwise the next iteration
AttemptEnded(p, c) ==
  /\ pc[p] = "claude"
  /\ EXIT_CODE' = [EXIT_CODE EXCEPT ![p] = c]
  /\ hist' = [hist EXCEPT ![p] = Append(@, c)]
  /\ pc' = [pc EXCEPT ![p] = IF BreakOnZero(c) THEN "final" ELSE "loop"]
  /\ ev' = NoEv
  /\ UNCHANGED <<ATTEMPT, TIMEOUT_CMD>>
  /\ timedFrame

\* the command ends by itself
ClaudeEnds(p, c) ==
  /\ c \in AttemptCodes
  /\ AttemptEnded(p, c)

\* $TIMEOUT_CMD ends the command when the time is up
TimeoutExpires(p) ==
  /\ TIMEOUT_CMD[p] \in {"gtimeout", "timeout"}
  /\ AttemptEnded(p, TimedOut)

TimedInit ==
  /\ jobDefs \in {d \in [JobNames -> [enabled : BOOLEAN, retries : 0..MaxRetries]] :
                    /\ d["a"].enabled
                    /\ ~d["b"].enabled /\ d["b"].retries = 0}
  /\ lockDir = [j \in JobNames |-> FALSE]
  /\ pidFile = [j \in JobNames |-> NoPid]
  /\ stateFile = << >>
  /\ now = 0
  /\ pc = [p \in Procs |-> "idle"]
  /\ job = [p \in Procs |-> "a"]
  /\ ts = [p \in Procs |-> 0]
  /\ ATTEMPT = [p \in Procs |-> 0]
  /\ EXIT_CODE = [p \in Procs |-> 1]
  /\ trapSet = [p \in Procs |-> FALSE]
  /\ hist = [p \in Procs |-> << >>]
  /\ ev = NoEv
  /\ JOB_TIMEOUT \in BOOLEAN
  /\ commands \in SUBSET {"gtimeout", "timeout"}
  /\ TIMEOUT_CMD = [p \in Procs |-> "unset"]
  /\ FsRest /\ CronRest /\ SyncRest /\ SrvRest

TimedNext ==
  \/ \E j \in JobNames, s \in Sources, t \in 0..MaxClock : Trigger(j, s, t)
  \/ \E p \in Procs : AcquireLock(p)
  \/ \E p \in Procs : WritePid(p)
  \/ \E p \in Procs : AppendEntry(p)
  \/ \E p \in Procs : TimeoutCmd(p)
  \/ \E p \in Procs, c \in AttemptCodes : ClaudeEnds(p, c)
  \/ \E p \in Procs : TimeoutExpires(p)
  \/ \E p \in Procs : FinalEntryWrite(p)
  \/ \E p \in Procs : Exit(p)

\* the shell goes on from one command to the next, and timeout(1) ends the
\* command it runs; nothing makes a command without timeout(1) end
TimedFairness ==
  \A p \in Procs :
    /\ WF_vars(AcquireLock(p))
    /\ WF_vars(WritePid(p))
    /\ WF_vars(AppendEntry(p))
    /\ WF_vars(TimeoutCmd(p))
    /\ WF_vars(TimeoutExpires(p))
    /\ WF_vars(FinalEntryWrite(p))
    /\ WF_vars(Exit(p))

TimedSpec == TimedInit /\ [][TimedNext]_vars /\ TimedFairness

\* ================================================= read-modify-replace
\* Every mutation of the store reads state.json, changes the array in
\* memory and replaces the file: the two bun -e scripts of runner.sh
\* (lines 193-213 and 259-285) and updateRun, deleteRun of state.ts.  Each
\* store writer makes one call, in two steps: the read, and the write of the
\* changed array.  The server's functions are synchronous, so no two of
\* them are under way at once; runners of one job exclude each other by the
\* lock.

KilledUpdate == [status |-> "killed", exitCode |-> KilledCode]

RunnerFns == {"append", "final"}
ServerFns == {"updateRun", "deleteRun"}

\* the calls that can be made on the array runs
MutatorCalls(runs) ==
  UNION {
    {[fn |-> "append", job |-> j, t |-> 1] :
       j \in {k \in JobNames : RunId(k, 0) \notin RunningIds(runs)}},
    {[fn |-> "final", job |-> id[1], t |-> id[2]] : id \in RunningIds(runs)},
    {[fn |-> "updateRun", job |-> id[1], t |-> id[2]] : id \in RunningIds(runs)},
    {[fn |-> "deleteRun", job |-> runs[i].runId[1], t |-> runs[i].runId[2]] :
       i \in {k \in 1..Len(runs) : runs[k].status # "running"}} }

\* what a call makes of the array it has read
ApplyCall(call, runs) ==
  IF call.fn = "append" THEN AppendRunning(runs, call.job, call.t)
  ELSE IF call.fn = "final"
    THEN ReplaceFinal(runs, FinalEntry(call.job, call.t, 0, 1))
  ELSE IF call.fn = "updateRun"
    THEN updateRun(runs, RunId(call.job, call.t), KilledUpdate)
  ELSE deleteRun(runs, RunId(call.job, call.t))

Busy(w) == mutators[w].pc = "read"

mutatorFrame ==
  UNCHANGED <<now, lifecycleVars, tmpIno, stIno, content, wpc, wfd, seen,
              cronVars, syncVars, srvVars, timeoutVars>>

\* the array the call of w changes: the one it read
ArrayOf(w) == mutators[w].runs

\* JSON.parse(readFileSync(stateFile))
MutatorRead(w, call) ==
  /\ mutators[w].pc = "idle"
  /\ call \in MutatorCalls(stateFile)
  /\ \A v \in Writers \ {w} :
       Busy(v) =>
         /\ ~(call.fn \in ServerFns /\ mutators[v].call.fn \in ServerFns)
         /\ ~(call.fn \in RunnerFns /\ mutators[v].call.fn \in RunnerFns
              /\ call.job = mutators[v].call.job)
  /\ mutators' = [mutators EXCEPT ![w] =
                    [pc |-> "read", call |-> call, runs |-> stateFile]]
  /\ ev' = NoEv
  /\ UNCHANGED stateFile
  /\ mutatorFrame

\* writeFileSync(tmp, JSON.stringify(runs)); renameSync(tmp, stateFile)
MutatorWrite(w) ==
  /\ mutators[w].pc = "read"
  /\ stateFile' = ApplyCall(mutators[w].call, ArrayOf(w))
  /\ mutators' = [mutators EXCEPT ![w].pc = "done"]
  /\ ev' = NoEv
  /\ mutatorFrame

\* the arrays the writers start from
MutatorStores ==
  {<< >>,
   <<RunningEntry("a", 0)>>,
   <<RunningEntry("a", 0), RunningEntry("b", 0)>>,
   <<FinalEntry("a", 0, 0, 1), RunningEntry("b", 0)>>,
   <<FinalEntry("a", 0, 1, 1), FinalEntry("b", 0, 0, 1)>>}

MutatorInit ==
  /\ jobDefs = [j \in JobNames |-> [enabled |-> TRUE, retries |-> 0]]
  /\ lockDir = [j \in JobNames |-> FALSE]
  /\ pidFile = [j \in JobNames |-> NoPid]
  /\ stateFile \in MutatorStores
  /\ now = 1
  /\ pc = [p \in Procs |-> "idle"]
  /\ job = [p \in Procs |-> "a"]
  /\ ts = [p \in Procs |-> 0]
  /\ ATTEMPT = [p \in Procs |-> 0]
  /\ EXIT_CODE = [p \in Procs |-> 1]
  /\ trapSet = [p \in Procs |-> FALSE]
  /\ hist = [p \in Procs |-> << >>]
  /\ ev = NoEv
  /\ ExtRest

MutatorNext ==
  \/ \E w \in Writers : \E call \in MutatorCalls(stateFile) : MutatorRead(w, call)
  \/ \E w \in Writers : MutatorWrite(w)

MutatorSpec == MutatorInit /\ [][MutatorNext]_vars

\* ============================================================ run ids
\* The run id the server answers a trigger with (spawnJob) and the RUN_ID
\* the spawned runner.sh gives itself.  A text is a sequence of characters;
\* a job name is one element of it.  The day is 2024-01-01, the UTC time is
\* 10:00:ss.

MaxSecond == 8
MaxLate == 1
TzHours == {0, 1}

Digits == <<"0", "1", "2", "3", "4", "5", "6", "7", "8", "9">>
Pad2(n) == <<Digits[(n \div 10) + 1], Digits[(n % 10) + 1]>>

UtcHour == 10

\* new Date().toISOString(): YYYY-MM-DDTHH:mm:ss.sssZ, in UTC
toISOString(sec) ==
  <<"2", "0", "2", "4", "-", "0", "1", "-", "0", "1", "T">>
    \o Pad2(UtcHour) \o <<":">> \o Pad2(0) \o <<":">> \o Pad2(sec)
    \o <<".", "0", "0", "0", "Z">>

\* .replace(/[-:T]/g, "")
StripSeparators(text) ==
  LET Keep(c) == c \notin {"-", ":", "T"}
  IN  SelectSeq(text, Keep)

\* .slice(0, 15)
Slice15(text) == SubSeq(text, 1, IF Len(text) < 15 THEN Len(text) ELSE 15)

\* spawnJob's return value: `${jobName}-${timestamp}`
spawnJobId(name, sec) ==
  <<name, "-">> \o Slice15(StripSeparators(toISOString(sec)))

\* date +%Y%m%d-%H%M%S, in the runner's local time
DateStamp(sec, tz) ==
  <<"2", "0", "2", "4", "0", "1", "0", "1", "-">>
    \o Pad2(UtcHour + tz) \o Pad2(0) \o Pad2(sec)

\* RUN_ID="${JOB_NAME}-${TIMESTAMP}"
RUN_ID(name, sec, tz) == <<name, "-">> \o DateStamp(sec, tz)

SpawnEv(name, returned, recorded) ==
  [op |-> "spawn", job |-> name, returned |-> returned, recorded |-> recorded]

\* POST /trigger/:jobName and POST /adhoc: the server spawns runner.sh at
\* second sec and answers with spawnJob's id; the runner, in a time zone tz
\* hours from UTC, stamps its RUN_ID late seconds after that and writes it
\* into its running entry
SpawnJob(name, sec, tz, late) ==
  /\ ev' = SpawnEv(name, spawnJobId(name, sec), RUN_ID(name, sec + late, tz))
  /\ UNCHANGED <<stateFile, now, lifecycleVars, extVars>>

SpawnNames == JobNames \cup {"adhoc"}

SpawnInit == RunRest /\ ExtRest

SpawnNext ==
  \E name \in SpawnNames, sec \in 0..MaxSecond, tz \in TzHours, late \in 0..MaxLate :
    SpawnJob(name, sec, tz, late)

SpawnSpec == SpawnInit /\ [][SpawnNext]_vars

\* ================================================================ claims
\* the runner processes that hold job j's lock and run its attempt-sequence
Holders(j) == {p \in Procs : pc[p] \in ActivePcs /\ job[p] = j}

Terminal(r) == r.status # "running"

\* the record the runner p writes or wrote under its RUN_ID
OwnRecord(runs, p) == runs[FindIndex(runs, RunId(job[p], ts[p]))]

\* C1: for every job name at most one attempt-sequence at a time holds the
\* job's lock and executes attempts, under any interleaving of triggers,
\* kills and runner exits.
C1_MutualExclusion == \A j \in JobNames : Cardinality(Holders(j)) <= 1

\* C2: in every reachable state of the store, for every job name at most one
\* RunRecord has status "running".
C2_OneRunningRecord ==
  \A j \in JobNames : Cardinality(StaleIdx(stateFile, j)) <= 1

\* C3: a runner whose mkdir finds the job's lock held is rejected: it ends
\* with exit status 2 in that step, has run no attempt, leaves the state
\* store, the lock directory and the pid file as they were, and a process
\* that has ended never runs again.
C3_RejectedNotQueued ==
  [][\A p \in Procs :
       /\ (pc[p] = "lock" /\ lockDir[job[p]] /\ pc'[p] # pc[p]) =>
            /\ pc'[p] = "done"
            /\ ev' = ExitEv(p, RejectCode)
            /\ hist[p] = << >>
            /\ stateFile' = stateFile
            /\ lockDir' = lockDir
            /\ pidFile' = pidFile
       /\ pc[p] = "done" => pc'[p] = "done" /\ hist'[p] = << >>]_vars

\* a trigger was just rejected while the holder's lock and pid file stand
C3_Witness ==
  /\ ev = ExitEv(1, RejectCode)
  /\ lockDir["a"]
  /\ pidFile["a"] # NoPid
  /\ \E p \in Procs : pc[p] = "loop" /\ pidFile["a"] = p

\* C4 as claimed: whenever a runner process that acquired the lock ends, on
\* any exit path, the lock directory and the pid file are gone.
C4_ReleasedOnEveryExit ==
  [][\A p \in Procs :
       (pc[p] \in LockedPcs /\ pc'[p] = "done") =>
          (~lockDir'[job[p]] /\ pidFile'[job[p]] = NoPid)]_vars

\* C4 amended: whenever a runner process that acquired the lock ends on a
\* path on which the shell runs its EXIT trap (success, final failure, a
\* failed state write, SIGTERM), the lock directory and the pid file are
\* gone; only an uncatchable kill leaves them.
C4_ReleasedOnTrappedExit ==
  [][\A p \in Procs :
       (pc[p] \in LockedPcs /\ pc'[p] = "done" /\ ev' # ExitEv(p, SigKillStatus)) =>
          (~lockDir'[job[p]] /\ pidFile'[job[p]] = NoPid)]_vars

\* a runner has just ended successfully and its lock is gone
C4_Witness ==
  /\ ev = ExitEv(1, 0)
  /\ ~lockDir["a"]
  /\ pidFile["a"] = NoPid
  /\ \E i \in 1..Len(stateFile) : stateFile[i].exitCode = 0

\* C5: the attempts value the runner writes in its final record is the
\* number of command executions of that attempt-sequence, and lies in
\* 1..retries+1.
C5_AttemptsCount ==
  [][\A p \in Procs :
       (pc[p] = "final" /\ pc'[p] = "exit") =>
          LET n == OwnRecord(stateFile', p).attempts
          IN  /\ n = Len(hist[p])
              /\ 1 <= n
              /\ n <= jobDefs[job[p]].retries + 1]_vars

\* a final record with attempts = 2 has just been written for a job with
\* retries = 1
C5_Witness ==
  \E p \in Procs :
    /\ pc[p] = "exit"
    /\ jobDefs[job[p]].retries = 1
    /\ Len(hist[p]) = 2
    /\ OwnRecord(stateFile, p).attempts = 2

\* C6: an attempt runs only if no earlier attempt of the sequence exited 0
\* and fewer than retries+1 attempts were consumed; the runner leaves the
\* loop only after a zero exit or after retries+1 attempts; the exitCode of
\* the final record is the last attempt's, it is 0 iff some attempt exited 0
\* and non-zero only after retries+1 non-zero attempts.
C6_RetryPolicy ==
  [][\A p \in Procs :
       LET R == jobDefs[job[p]].retries
           h == hist[p]
       IN  /\ (pc[p] = "loop" /\ pc'[p] \in {"loop", "final"} /\ hist'[p] # h) =>
                /\ \A k \in 1..Len(h) : h[k] # 0
                /\ Len(h) < R + 1
                /\ Len(hist'[p]) = Len(h) + 1
           /\ (pc[p] = "loop" /\ pc'[p] = "final") =>
                LET h2 == hist'[p]
                IN  /\ Len(h2) >= 1
                    /\ h2[Len(h2)] = 0 \/ Len(h2) = R + 1
           /\ (pc[p] = "final" /\ pc'[p] = "exit") =>
                LET code == OwnRecord(stateFile', p).exitCode
                IN  /\ Len(h) >= 1
                    /\ code = h[Len(h)]
                    /\ (code = 0) <=> (\E k \in 1..Len(h) : h[k] = 0)
                    /\ code # 0 =>
                         (Len(h) = R + 1 /\ \A k \in 1..Len(h) : h[k] # 0)]_vars

\* retries = 1, the command failed then succeeded: attempts 2, exitCode 0
C6_Witness ==
  \E p \in Procs :
    /\ pc[p] = "exit"
    /\ jobDefs[job[p]].retries = 1
    /\ hist[p] = <<1, 0>>
    /\ OwnRecord(stateFile, p).attempts = 2
    /\ OwnRecord(stateFile, p).exitCode = 0

\* C7: for a job with enabled = false a scheduled trigger is a no-op, and
\* the runner started by a manual trigger (API or CLI) goes on to take the
\* lock instead of ending at the enabled check.
C7_ManualTriggerRunsPaused ==
  [][(ev'.op = "trigger" /\ ~jobDefs[ev'.job].enabled) =>
       IF ev'.src \in ManualSources
         THEN pc'[NextIdle] = "lock"
         ELSE /\ pc'[NextIdle] = "done"
              /\ UNCHANGED <<lockDir, pidFile, stateFile, hist>>]_vars

\* C8: a killJob(name) made while some record of that job is "running"
\* leaves neither lock directory nor pid file of the job, and every such
\* record with status "killed" and exitCode 137.
C8_KillReconciles ==
  [][(ev'.op = "kill" /\ StaleIdx(stateFile, ev'.job) # {}) =>
       LET j == ev'.job
       IN  /\ ~lockDir'[j]
           /\ pidFile'[j] = NoPid
           /\ Len(stateFile') = Len(stateFile)
           /\ \A i \in StaleIdx(stateFile, j) :
                /\ stateFile'[i].status = "killed"
                /\ stateFile'[i].exitCode = KilledCode]_vars

\* C9: killJob(name) answers with an error, and changes neither the store
\* nor a lock artifact, when the job has no lock and no running record; it
\* answers killed whenever it found a lock or a running record.
C9_KillAnswer ==
  [][ev'.op = "kill" =>
       LET j == ev'.job
           found == \/ lockDir[j]
                    \/ pidFile[j] # NoPid
                    \/ StaleIdx(stateFile, j) # {}
       IN  /\ ~found => /\ ~ev'.killed
                        /\ UNCHANGED <<stateFile, lockDir, pidFile>>
           /\ found => ev'.killed]_vars

\* C10: a record that is no longer "running" keeps its outcome: a step that
\* is not a deletion leaves every terminal record in the store as it is.
C10_TerminalAbsorbing ==
  [][Len(stateFile') >= Len(stateFile) =>
       \A i \in 1..Len(stateFile) :
          Terminal(stateFile[i]) => stateFile'[i] = stateFile[i]]_vars

\* C11: after any append by the runner the store holds at most 100 records,
\* and they are the newest 100 of the array with the new entry at its end, in
\* their original order: what is dropped is the oldest by insertion order.
C11_StoreCapped ==
  [][ev'.op = "append" =>
       LET full == Append(stateFile, ev'.entry)
           n    == Len(stateFile')
       IN  /\ n <= 100
           /\ n = (IF Len(full) > 100 THEN 100 ELSE Len(full))
           /\ \A i \in 1..n : stateFile'[i] = full[Len(full) - n + i]]_vars

\* the 102nd append: the records of seconds 0 and 1 have been dropped
C11_Witness ==
  /\ ev.op = "append"
  /\ Len(stateFile) = 100
  /\ stateFile[1].runId = RunId("a", 2)
  /\ stateFile[100].runId = RunId("a", 101)

\* the records of the array whose status is "running", in array order
RunningOf(runs) ==
  SelectSeqIdx(runs, {i \in 1..Len(runs) : runs[i].status = "running"}, 1)

\* C12: no delete operation of the store (deleteRun, deleteRuns, clearRuns
\* with or without a status filter) removes a record whose status is
\* "running": the running records before the call are all there, unchanged,
\* after it.
C12_DeletesSkipRunning ==
  [][ev'.op \in {"deleteRun", "deleteRuns", "clearRuns"} =>
       RunningOf(stateFile') = RunningOf(stateFile)]_vars

C13_NoTornRead == seen.kind = "snapshot"

\* the domain of each cron field: minute, hour, day of month, month, day of
\* week
FieldLo == <<0, 0, 1, 1, 0>>
FieldHi == <<59, 23, 31, 12, 6>>

\* the set of integers a comma-free part of a cron field stands for
PartSet(part, lo, hi) ==
  IF part = <<Star>> THEN lo..hi
  ELSE IF IsNumber(part) THEN {part[1]}
  ELSE IF IsRange(part) THEN part[1]..part[3]
  ELSE IF IsStep(part) THEN {x \in lo..hi : (x - lo) % part[3] = 0}
  ELSE IF Len(part) = 5 /\ IsRange(SubSeq(part, 1, 3)) /\ part[4] = Slash
    THEN {x \in part[1]..part[3] : (x - part[1]) % part[5] = 0}
  ELSE {}

\* the set of integers the k-th cron field stands for
FieldSet(field, k) ==
  LET parts == SplitAt(field, Comma)
  IN  UNION {PartSet(parts[i], FieldLo[k], FieldHi[k]) : i \in 1..Len(parts)}

\* the field is "*", a literal, a comma list of literals and ranges, a
\* range, or "*/step"
PlainForm(field) ==
  \/ field = <<Star>>
  \/ IsStep(field)
  \/ LET parts == SplitAt(field, Comma)
     IN  \A i \in 1..Len(parts) : IsNumber(parts[i]) \/ IsRange(parts[i])

Compiled == calendar.called /\ Len(cron) = 5

\* C15: for every valid 5-field expression the number of instants emitted is
\* the product, over the fields that are not "*", of the number of values
\* the field expands to.
C15_CountIsProduct ==
  Compiled =>
    LET card(k) == IF cron[k] = <<Star>> THEN 1
                   ELSE Cardinality(FieldSet(cron[k], k))
    IN  Len(calendar.dicts) = card(1) * card(2) * card(3) * card(4) * card(5)

\* C16: for a literal, a comma list, a range or "*/step", every integer
\* emitted for a field lies in the field's domain.
C16_ValuesInDomain ==
  (Compiled /\ \A k \in 1..5 : PlainForm(cron[k])) =>
    \A i \in 1..Len(calendar.dicts) : \A k \in 1..5 :
      LET d == calendar.dicts[i]
      IN  (CalendarKeys[k] \in DOMAIN d /\ IsNumber(d[CalendarKeys[k]])) =>
            d[CalendarKeys[k]][1] \in FieldLo[k]..FieldHi[k]

\* C17: for every syntactically valid expression every value emitted in an
\* instant is a run of decimal digits; no "*", "-", "/" appears in a value.
C17_ValuesNumeric ==
  Compiled =>
    \A i \in 1..Len(calendar.dicts) :
      \A key \in DOMAIN calendar.dicts[i] : IsNumber(calendar.dicts[i][key])

\* every instant has a key for a field exactly if the field is not "*"
KeysIffConstrained ==
  \A i \in 1..Len(calendar.dicts) : \A k \in 1..5 :
    (CalendarKeys[k] \in DOMAIN calendar.dicts[i]) <=> (cron[k] # <<Star>>)

C19_WrongFieldCountRejected ==
  (calendar.called /\ Len(cron) # 5) =>
    /\ calendar.status # 0
    /\ calendar.dicts = << >>
    /\ ~calendar.wrapped

\* C20: schedule sync is idempotent: a sync that runs alone, after a sync
\* that completed over the same job definitions, leaves the plists and the
\* loaded services (labels and compiled instants) as it found them.
C20_SyncIdempotent ==
  [][\A q \in Syncers :
       (syncer[q].pc = "next" /\ syncer'[q].pc = "idle" /\ syncer[q].watch.on) =>
         /\ plists' = syncer[q].watch.plists
         /\ loaded' = syncer[q].watch.loaded]_vars

\* a second sync over the same definitions has completed: job a, scheduled
\* "0 9-11 * * *", is loaded with its three instants, job b is paused and has
\* no plist
C20_Witness ==
  /\ lastSync.ran
  /\ lastSync.again
  /\ DOMAIN jobYaml = {"a", "b"}
  /\ ~jobYaml["b"].enabled /\ jobYaml["b"].schedule # NoSchedule
  /\ DOMAIN loaded = {"a"}
  /\ DOMAIN plists = {"a"}
  /\ Len(loaded["a"]) = 1
  /\ Len(loaded["a"][1].dicts) = 3

\* C21: when a sync that ran alone over fixed job definitions completes, the
\* loaded services (and the plist files) are exactly those of the jobs that
\* have a schedule and are not paused, each with its compiled schedule;
\* whatever was registered for a deleted, unscheduled or paused job is gone.
C21_RegisteredIsScheduled ==
  [][\A q \in Syncers :
       (syncer[q].pc = "next" /\ syncer'[q].pc = "idle" /\ syncer[q].clean) =>
         /\ DOMAIN loaded' = ScheduledJobs(jobYaml)
         /\ DOMAIN plists' = ScheduledJobs(jobYaml)
         /\ \A j \in ScheduledJobs(jobYaml) :
              /\ loaded'[j] = <<cron_to_calendar_interval(jobYaml[j].schedule)>>
              /\ plists'[j] = loaded'[j]]_vars

\* a first sync over these definitions has completed: job a is registered,
\* job b, which exists without a schedule, is not
C21_Witness ==
  /\ lastSync.ran
  /\ ~lastSync.again
  /\ lastSync.defs = jobYaml
  /\ DOMAIN jobYaml = {"a", "b"}
  /\ jobYaml["b"].schedule = NoSchedule
  /\ jobYaml["a"].enabled /\ jobYaml["a"].schedule # NoSchedule
  /\ DOMAIN loaded = {"a"}
  /\ \A q \in Syncers : ~Running(q)

\* C22: with setup.sh runs interleaved over the same job files, no run ends
\* before its stale cleanup, and once no run is in progress the loaded
\* services are exactly those of the scheduled, enabled jobs.
C22_ConcurrentSyncsComplete ==
  [][\A q \in Syncers :
       (Running(q) /\ ~Running(q)') =>
         /\ syncer[q].pc = "next"
         /\ (\A r \in Syncers : ~Running(r)') =>
              DOMAIN loaded' = ScheduledJobs(jobYaml)]_vars

\* the job files and the schedule are as they were before the step
JobFilesUntouched ==
  /\ jobsDir' = jobsDir
  /\ jobsLocalDir' = jobsLocalDir
  /\ synced' = synced

InEitherSet(name) == name \in DOMAIN jobsDir \cup DOMAIN jobsLocalDir

\* C23: createJob with an invalid name, a name that has a file in jobs/ or
\* jobs.local/, or a body that does not parse, and updateJob with a name that
\* has no file or a body that does not parse, return ok = false with the
\* error of that case, write no job file and do not call syncSchedule.
C23_RejectedWritesNothing ==
  [][/\ (/\ ev'.op = "createJob"
         /\ \/ ~validateJobName(ev'.name)
            \/ InEitherSet(ev'.name)
            \/ ev'.yaml = Malformed) =>
          /\ ~ev'.ok /\ ~ev'.sync /\ JobFilesUntouched
          /\ ev'.error =
               IF ~validateJobName(ev'.name)
                 THEN "Job name must match [a-z0-9-]+"
               ELSE IF InEitherSet(ev'.name) THEN "Job already exists"
               ELSE "Invalid YAML"
     /\ (/\ ev'.op = "updateJob"
         /\ \/ ~InEitherSet(ev'.name)
            \/ ev'.yaml = Malformed) =>
          /\ ~ev'.ok /\ ~ev'.sync /\ JobFilesUntouched
          /\ ev'.error \in {"Job name must match [a-z0-9-]+", "Job not found",
                            "Invalid YAML"}]_vars

\* createJob was refused for a name that has a file in jobs.local/ only
C23_Witness ==
  /\ ev.op = "createJob"
  /\ ~ev.ok /\ ev.error = "Job already exists"
  /\ ev.yaml # Malformed
  /\ ev.name \in DOMAIN jobsLocalDir
  /\ ev.name \notin DOMAIN jobsDir

\* C24: deleteJob of a job that has a file and whose lock exists returns
\* the 'currently running' error, removes no file and does not call
\* syncSchedule.
C24_DeleteRefusedWhileLocked ==
  [][(/\ ev'.op = "deleteJob"
      /\ InEitherSet(ev'.name)
      /\ ev'.name \in lockFiles) =>
       /\ ~ev'.ok /\ ev'.error = "currently running"
       /\ ~ev'.sync /\ JobFilesUntouched]_vars

\* deleteJob was refused for a locked job whose file is still there
C24_Witness ==
  /\ ev.op = "deleteJob"
  /\ ~ev.ok /\ ev.error = "currently running"
  /\ ev.name \in lockFiles
  /\ ev.name \in DOMAIN jobsDir

\* C25: toggleJob of a job that has a file and whose lock exists returns
\* the 'currently running' error and leaves the job file as it was.
C25_ToggleRefusedWhileLocked ==
  [][(/\ ev'.op = "toggleJob"
      /\ InEitherSet(ev'.name)
      /\ ev'.name \in lockFiles) =>
       /\ ~ev'.ok /\ ev'.error = "currently running"
       /\ JobFilesUntouched]_vars

\* the mapping of the file a job name resolves to, in these directories
DocOf(shared, local, name) == Effective(shared, local)[name].doc

OtherKeys(d) == DOMAIN d \ {"enabled"}

\* the effective enabled state, as getJobInfo computes it (enabled !== false)
EffectiveEnabled(d) == ~("enabled" \in DOMAIN d /\ d["enabled"] = "B:false")

\* the same fields with the same values, and the same effective enabled state
EquivalentDocs(d, e) ==
  /\ OtherKeys(d) = OtherKeys(e)
  /\ \A k \in OtherKeys(d) : d[k] = e[k]
  /\ EffectiveEnabled(d) = EffectiveEnabled(e)

\* C27: a toggleJob that succeeds stores enabled = false for a job that was
\* enabled and removes the enabled key of a job that was paused, keeps every
\* other field, returns the new effective enabled state, and the toggle after
\* it stores a definition equivalent to the one before it.
C27_ToggleTwiceRestores ==
  [][(ev'.op = "toggleJob" /\ ev'.ok) =>
       LET old == DocOf(jobsDir, jobsLocalDir, ev'.name)
           new == DocOf(jobsDir', jobsLocalDir', ev'.name)
       IN  /\ IF EffectiveEnabled(old)
                THEN "enabled" \in DOMAIN new /\ new["enabled"] = "B:false"
                ELSE "enabled" \notin DOMAIN new
           /\ OtherKeys(new) = OtherKeys(old)
           /\ \A k \in OtherKeys(old) : new[k] = old[k]
           /\ ev'.enabled = IF EffectiveEnabled(new) THEN "true" ELSE "false"
           /\ EquivalentDocs(Toggled(new), old)]_vars

\* a paused job has been resumed: its file, rewritten by toggleJob, has no
\* enabled key and still has its prompt and schedule
C27_Witness ==
  /\ ev.op = "toggleJob" /\ ev.ok /\ ev.enabled = "true"
  /\ ev.name \in DOMAIN jobsDir
  /\ jobsDir[ev.name].form = "dumped"
  /\ DOMAIN jobsDir[ev.name].doc = {"prompt", "schedule"}

\* C26: the trigger route does not answer "started" for a job whose lock
\* directory exists at the time of the request (the runner it spawned exits 2
\* at acquire_lock).
C26_NoStartedWhileLocked ==
  [][(ev'.op = "trigger" /\ ev'.src = "api" /\ lockDir[ev'.job]) =>
       ev'.answer # "started"]_vars

\* the step of a tick at which the status event is or is not written
StatusStep == ssePc = "flush" /\ ssePc' = "tail"

\* C28: at each tick a status event is written iff the hash of the runs the
\* tick read differs from lastRunsHash, which is the hash of the last tick
\* that wrote one (and differs from every hash before the first); the event
\* carries the last 50 records of the array at most, the last one first.
C28_StatusIffHashChanged ==
  [][/\ StatusStep =>
          /\ (ev'.op = "status") <=> (RunsHash(tickRuns) # lastRunsHash)
          /\ ~lastRunsHash.set => ev'.op = "status"
          /\ ev'.op = "status" =>
               /\ lastRunsHash' = RunsHash(tickRuns)
               /\ Len(ev'.data) <= StatusLimit
               /\ Len(ev'.data) = IF Len(tickRuns) < StatusLimit
                                    THEN Len(tickRuns) ELSE StatusLimit
               /\ \A i \in 1..Len(ev'.data) :
                    ev'.data[i] = tickRuns[Len(tickRuns) + 1 - i]
          /\ ev'.op # "status" => lastRunsHash' = lastRunsHash
     /\ ~StatusStep => (lastRunsHash' = lastRunsHash /\ ev'.op # "status")]_vars

\* a status event was written for an array of 51 records: it carries 50,
\* the running one, which was added last, first
C28_Witness ==
  /\ ev.op = "status"
  /\ Len(tickRuns) = StatusLimit + 1
  /\ Len(ev.data) = StatusLimit
  /\ ev.data[1].status = "running"
  /\ ev.data[1].runId = stateFile[Len(stateFile)].runId

\* C29: for each run, the contents of the log events written so far on the
\* connection, put together, are the first bytes of its log file, in order,
\* each once.
C29_LogEventsArePrefix ==
  \A id \in DOMAIN sent :
    /\ Len(sent[id]) <= logFile[id]
    /\ \A i \in 1..Len(sent[id]) : sent[id][i] = i

\* C30: for a job with a timeout, a runner that has started an attempt gets
\* to the end of its attempt-sequence: its final entry is in the state file,
\* not running, with at most retries + 1 attempts.
C30_TimedAttemptsTerminate ==
  JOB_TIMEOUT =>
    \A p \in Procs :
      (pc[p] = "claude") ~>
        (/\ pc[p] = "exit"
         /\ ATTEMPT[p] <= jobDefs[job[p]].retries + 1
         /\ \E i \in 1..Len(stateFile) :
              /\ stateFile[i].runId = RunId(job[p], ts[p])
              /\ stateFile[i].status # "running"
              /\ stateFile[i].attempts <= jobDefs[job[p]].retries + 1)

\* C31: the completion write of a runner leaves the number of records as it
\* was and exactly one record with the runner's runId, the final one, at the
\* place where a record with that runId was before the write.
C31_CompletionOverwritesInPlace ==
  [][\A p \in Procs :
       (pc[p] = "final" /\ pc'[p] = "exit") =>
         LET id == RunId(job[p], ts[p])
         IN  /\ Len(stateFile') = Len(stateFile)
             /\ Cardinality({i \in 1..Len(stateFile') :
                               stateFile'[i].runId = id}) = 1
             /\ \A i \in 1..Len(stateFile') :
                  stateFile'[i].runId = id =>
                    /\ stateFile[i].runId = id
                    /\ stateFile'[i].status # "running"]_vars

\* the positions of the non-running records a delete call is aimed at
Targeted(runs, e) ==
  {i \in 1..Len(runs) :
     /\ runs[i].status # "running"
     /\ IF e.op = "deleteRun" THEN i = FindIndex(runs, e.arg)
        ELSE IF e.op = "deleteRuns" THEN runs[i].runId \in e.arg
        ELSE e.arg = "" \/ runs[i].status = e.arg}

\* C32: deleteRun, deleteRuns and clearRuns take every non-running record they
\* are aimed at out of the store together with its log file, an unlink that
\* fails does not keep the record, and no log file disappears whose run still
\* has a record in the store afterwards.
C32_DeleteRemovesRecordAndLog ==
  [][ev'.op \in {"deleteRun", "deleteRuns", "clearRuns"} =>
       LET hit == Targeted(stateFile, ev')
       IN  /\ Len(stateFile') = Len(stateFile) - Cardinality(hit)
           /\ \A i \in hit :
                stateFile[i].runId \notin ev'.stuck =>
                  stateFile[i].runId \notin DOMAIN logFile'
           /\ \A id \in DOMAIN logFile \ DOMAIN logFile' :
                \A n \in 1..Len(stateFile') : stateFile'[n].runId # id]_vars

\* no delete call that writes the store takes away the log file of a run that
\* still has a record in the store
C32_LogGoneRecordKept ==
  [][~(/\ ev'.op \in {"deleteRun", "deleteRuns", "clearRuns"}
       /\ stateFile' # stateFile
       /\ \E id \in DOMAIN logFile \ DOMAIN logFile' :
            \E n \in 1..Len(stateFile') : stateFile'[n].runId = id)]_vars


C34_BufferIsDeliveredPrefix ==
  \A id \in DOMAIN sent :
    /\ LogsOf(id) = [i \in 1..Len(LogsOf(id)) |-> i]
    /\ \A k \in 1..Len(sent[id]) : sent[id][k] <= Len(LogsOf(id))


\* C35: a runner invocation whose job has no file, whose job file does not
\* parse, or (started by the schedule) whose job is paused ends before the
\* lock: the step takes no lock dir, writes no pid file and no run record,
\* makes no attempt, and the process is done without ever being at the lock.
C35_AbortBeforeLock ==
  [][(/\ ev'.op = "trigger"
      /\ \/ ev'.job \notin DOMAIN jobDefs
         \/ "broken" \in DOMAIN jobDefs[ev'.job]
         \/ (ev'.src = "schedule" /\ ~jobDefs[ev'.job].enabled)) =>
       /\ UNCHANGED <<lockDir, pidFile, stateFile, ATTEMPT, hist, trapSet>>
       /\ \E p \in Procs : pc[p] = "idle" /\ pc'[p] = "done"
       /\ \A p \in Procs : pc'[p] # pc[p] => pc'[p] = "done"]_vars

\* an invocation for a job whose file does not parse, or that has no file,
\* has just ended while another run holds its lock
C35_Witness ==
  /\ ev.op = "trigger"
  /\ ev.job \notin DOMAIN jobDefs \/ "broken" \in DOMAIN jobDefs[ev.job]
  /\ \E p \in Procs : pc[p] = "done"
  /\ \E j \in JobNames : lockDir[j]


\* C36: no mutation of the store is lost: once two writers have both made
\* their call, the array in the store is what the two calls make one after
\* the other, in one of the two orders, of the array the first of them read.
C36_NoLostMutation ==
  \A w, v \in Writers :
    (w # v /\ mutators[w].pc = "done" /\ mutators[v].pc = "done") =>
      \E first \in {w, v} :
        LET second == CHOOSE x \in {w, v} : x # first
        IN  stateFile = ApplyCall(mutators[second].call,
                          ApplyCall(mutators[first].call, mutators[first].runs))

\* two runners of different jobs have both written their running entry and
\* one of the two entries is not in the store
C36_AppendsBothPresent ==
  \A w, v \in Writers :
    (/\ w # v
     /\ mutators[w].pc = "done" /\ mutators[w].call.fn = "append"
     /\ mutators[v].pc = "done" /\ mutators[v].call.fn = "append") =>
      /\ FindIndex(stateFile, RunId(mutators[w].call.job, mutators[w].call.t)) # 0
      /\ FindIndex(stateFile, RunId(mutators[v].call.job, mutators[v].call.t)) # 0


\* no live runner of job j holds its lock, and a lock dir, a pid file or a
\* running record of j is left
Orphaned(j) ==
  /\ \A p \in Procs : ~(pc[p] \in LockedPcs /\ job[p] = j)
  /\ \/ lockDir[j]
     \/ pidFile[j] # NoPid
     \/ \E i \in 1..Len(stateFile) :
          stateFile[i].jobName = j /\ stateFile[i].status = "running"

\* C37: when the runner of a job has died and left its lock dir, pid file or
\* running record behind, one killJob that answers killed: true leaves no
\* lock dir, no pid file and no running record of the job, so that the next
\* runner of the job gets the lock.
C37_KillRecoversOrphan ==
  [][\A j \in JobNames :
       (Orphaned(j) /\ ev'.op = "kill" /\ ev'.job = j /\ ev'.killed) =>
         /\ ~lockDir'[j]
         /\ pidFile'[j] = NoPid
         /\ \A i \in 1..Len(stateFile') :
              stateFile'[i].jobName = j => stateFile'[i].status # "running"]_vars


\* C38: the run id a trigger answers with is the runId of the record the
\* spawned runner appends.
C38_ReturnedIdIsRecorded ==
  ev.op = "spawn" => ev.returned = ev.recorded

\* with the runner in UTC and stamping in the same second, the two ids differ
C38_SameSecondSameZone ==
  [][\A name \in SpawnNames, sec \in 0..MaxSecond :
       ev' = SpawnEv(name, spawnJobId(name, sec), RUN_ID(name, sec, 0)) =>
         ev'.returned = ev'.recorded]_vars


\* every byte of every log file has been carried by a log event
Delivered ==
  \A id \in DOMAIN logFile :
    \A k \in 1..logFile[id] : \E n \in 1..Len(SentOf(id)) : SentOf(id)[n] = k

\* C39: on a connection that is open during the whole run, every byte
\* written to the run's log file, the lines after the final record
\* included, is eventually delivered in a log event.
C39_LogEventuallyComplete ==
  []<>Delivered


\* every run that has had a log event on the connection eventually has had
\* all the bytes of its log file delivered
C39_TailedRunsComplete ==
  []<>(\A id \in DOMAIN sent :
         \A k \in 1..logFile[id] : \E n \in 1..Len(sent[id]) : sent[id][n] = k)


====
